---- MODULE Spec2Model ----
(***************************************************************************)
(* Model of the best-of-N TimetableGenerator of                            *)
(* src/src/utils/timetableGenerator.ts (lines 11-770): the ledger, the     *)
(* class and teacher grids, the slot availability oracle, the four         *)
(* category allocators and the generateTimetables driver; and of the       *)
(* repair-loop TimetableGenerator with the relaxed fallback (lines          *)
(* 1934-2877 of the same file): its driver, its games and library           *)
(* allocators and its slot search for regular subjects; and of parseCSV     *)
(* (src/src/utils/csvParser.ts), which produces the rows.                   *)
(*                                                                         *)
(* Representation.  A staff string is the sequence of the pieces between   *)
(* its ',' and '+' separators (already trimmed); parseStaffMembers drops   *)
(* the empty pieces.  A class name and a ledger key are the strings the    *)
(* code builds.  A grid is day (0..5) x period index (0..N-1) -> cell; a   *)
(* cell whose subject is Undefined is empty.  The day/period labels of a   *)
(* TimeSlot never change and are left out, and so is labStaffSchedules,    *)
(* which the code only ever resets.                                        *)
(***************************************************************************)
EXTENDS Integers, Sequences, FiniteSets, TLC

VARIABLES
  subjectData,          \* input rows (constructor argument)
  teacherPreferences,   \* names of the teachers that have a preference row
  scheduleSettings,     \* totalPeriodsPerDay, lunchPeriod, breakPeriods, maxTeacherPeriodsPerWeek
  classTimetables,      \* className -> grid
  teacherTimetables,    \* individual teacher -> grid
  subjectAllocations,   \* subjectKey -> [allocatedPeriods, requiredPeriods]
  teacherWorkload,      \* individual teacher -> periods assigned
  pc,                   \* position inside generateTimetables
  attempt,              \* loop counter of generateTimetables
  sortedSubjects,       \* the order allocateSubjects iterates over
  nextRow,              \* index in sortedSubjects of the next row to dispatch
  bestScore,            \* numerator of the best score (see calculateAllocationScore)
  best,                 \* bestClassTimetables / bestTeacherTimetables
  returned,             \* value returned by generateTimetables
  subjectPeriodUsage,   \* repair-loop generator: subjectKey -> period numbers used
  libraryOccupancy,     \* repair-loop generator: (day, period) -> class holding the library
  csvContent,           \* parseCSV: the text handed to it, as lines of cells
  parsed                \* parseCSV: the rows returned or the error thrown

vars == <<subjectData, teacherPreferences, scheduleSettings, classTimetables,
          teacherTimetables, subjectAllocations, teacherWorkload, pc, attempt,
          sortedSubjects, nextRow, bestScore, best, returned,
          subjectPeriodUsage, libraryOccupancy, csvContent, parsed>>

-----------------------------------------------------------------------------
(* Program constants *)

NumDays == 6
maxAttempts == 50

(* Bounds of the model *)

MaxRows == 2

Undefined == "undefined"
NoStaff == <<>>

Days == 0 .. (NumDays - 1)

-----------------------------------------------------------------------------
(* Input universe *)

LabNames == {"Physics Lab", "Chemistry Practical"}
LibraryNames == {"Library"}
GamesNames == {"Games"}
RegularNames == {"Mathematics", "English", "Tamil"}
SubjectNames == LabNames \cup LibraryNames \cup GamesNames \cup RegularNames

\* periods per week of the rows of each subject
PeriodsOf(subject) ==
  CASE subject = "Physics Lab" -> 2
    [] subject = "Chemistry Practical" -> 3
    [] subject = "Library" -> 6
    [] subject = "Games" -> 2
    [] subject = "Mathematics" -> 5
    [] subject = "English" -> 7
    [] subject = "Tamil" -> 53

\* (class, staff string) of a row: one class with a single teacher or a pair,
\* another class taught by either teacher
ClassStaffChoices ==
  { [department |-> "CS", year |-> "2", section |-> "A", staff |-> <<"Dr. A">>],
    [department |-> "CS", year |-> "2", section |-> "A", staff |-> <<"Dr. A", "Dr. B">>],
    [department |-> "EEE", year |-> "1", section |-> "B", staff |-> <<"Dr. A">>],
    [department |-> "EEE", year |-> "1", section |-> "B", staff |-> <<"Dr. B">>] }

\* every (class, staff) with every subject, except the subject that needs more
\* periods than the week has days, which only one class takes
RowChoices ==
  { [department |-> c.department, year |-> c.year, section |-> c.section,
     subject |-> s, periods |-> PeriodsOf(s), staff |-> c.staff] :
       c \in ClassStaffChoices, s \in SubjectNames \ {"English", "Tamil"} }
  \cup
  { [department |-> "CS", year |-> "2", section |-> "A",
     subject |-> "English", periods |-> PeriodsOf("English"), staff |-> <<"Dr. A">>] }

SettingsChoices ==
  { [totalPeriodsPerDay |-> 8, lunchPeriod |-> 5, breakPeriods |-> {3, 7},
     maxTeacherPeriodsPerWeek |-> 30],
    [totalPeriodsPerDay |-> 7, lunchPeriod |-> 4, breakPeriods |-> {2, 6},
     maxTeacherPeriodsPerWeek |-> 30],
    [totalPeriodsPerDay |-> 4, lunchPeriod |-> 2, breakPeriods |-> {3},
     maxTeacherPeriodsPerWeek |-> 30],
    [totalPeriodsPerDay |-> 4, lunchPeriod |-> 2, breakPeriods |-> {3},
     maxTeacherPeriodsPerWeek |-> 3] }

PreferenceChoices == { {}, {"Dr. B"} }

RowLists == UNION { [1..n -> RowChoices] : n \in 1..MaxRows }

\* a second universe: one class in a week of ten periods a day, one of its
\* subjects needing nearly every teaching period of the week
LongWeekSettings ==
  { [totalPeriodsPerDay |-> 10, lunchPeriod |-> 5, breakPeriods |-> {},
     maxTeacherPeriodsPerWeek |-> 60] }

LongWeekRowChoices ==
  { [department |-> "CS", year |-> "2", section |-> "A",
     subject |-> s, periods |-> PeriodsOf(s), staff |-> <<"Dr. A">>] :
       s \in {"Tamil", "Physics Lab", "Chemistry Practical", "Library", "Games"} }

LongWeekRowLists == UNION { [1..n -> LongWeekRowChoices] : n \in 1..MaxRows }

-----------------------------------------------------------------------------
(* Pure helpers *)

\* parseStaffMembers: split on , or +, trim, drop the empty pieces
parseStaffMembers(staffString) ==
  SelectSeq(staffString, LAMBDA s : s # "")

Range(seq) == { seq[i] : i \in 1..Len(seq) }

\* `${department}-${year}-${section}`
ClassNameOf(data) ==
  data.department \o "-" \o data.year \o "-" \o data.section

\* `${subject}-${className}`
SubjectKeyOf(data) ==
  data.subject \o "-" \o ClassNameOf(data)

\* case-insensitive substring tests, tabulated over SubjectNames
isLabSubject(subject) == subject \in LabNames

isLibrarySubject(subject) == subject \in LibraryNames

isGamesSubject(subject) == subject \in GamesNames

\* String.localeCompare over SubjectNames, tabulated as the alphabetical rank
SubjectRank(subject) ==
  CASE subject = "Chemistry Practical" -> 1
    [] subject = "English" -> 2
    [] subject = "Games" -> 3
    [] subject = "Library" -> 4
    [] subject = "Mathematics" -> 5
    [] subject = "Physics Lab" -> 6
    [] subject = "Tamil" -> 7

TotalPeriods(settings) == settings.totalPeriodsPerDay

PeriodIdx(settings) == 0 .. (TotalPeriods(settings) - 1)

EmptySlot == [subject |-> Undefined, staff |-> NoStaff, className |-> Undefined]

EmptyGrid(settings) == [d \in Days |-> [p \in PeriodIdx(settings) |-> EmptySlot]]

UniqueClasses(rows) == { ClassNameOf(rows[i]) : i \in 1..Len(rows) }

UniqueTeachers(rows) ==
  UNION { Range(parseStaffMembers(rows[i].staff)) : i \in 1..Len(rows) }

\* index of the last row carrying key k: Map.set overwrites earlier rows
LastRowWithKey(rows, k) ==
  CHOOSE i \in 1..Len(rows) :
    /\ SubjectKeyOf(rows[i]) = k
    /\ \A j \in (i+1)..Len(rows) : SubjectKeyOf(rows[j]) # k

\* the object state the allocators read and write
initializeAllocations(rows, settings) ==
  [ ct |-> [c \in UniqueClasses(rows) |-> EmptyGrid(settings)],
    tt |-> [t \in UniqueTeachers(rows) |-> EmptyGrid(settings)],
    alloc |-> [k \in { SubjectKeyOf(rows[i]) : i \in 1..Len(rows) } |->
                 [allocatedPeriods |-> 0,
                  requiredPeriods |-> rows[LastRowWithKey(rows, k)].periods]],
    wl |-> [t \in UniqueTeachers(rows) |-> 0] ]

\* mutant: the teacher workload survives the reset
resetAllocations_KeepWorkload(st, settings) ==
  [ ct |-> [c \in DOMAIN st.ct |-> EmptyGrid(settings)],
    tt |-> [t \in DOMAIN st.tt |-> EmptyGrid(settings)],
    alloc |-> [k \in DOMAIN st.alloc |->
                 [st.alloc[k] EXCEPT !.allocatedPeriods = 0]],
    wl |-> st.wl ]

\* mutant: the class grids survive the reset
resetAllocations_KeepClassGrids(st, settings) ==
  [ ct |-> st.ct,
    tt |-> [t \in DOMAIN st.tt |-> EmptyGrid(settings)],
    alloc |-> [k \in DOMAIN st.alloc |->
                 [st.alloc[k] EXCEPT !.allocatedPeriods = 0]],
    wl |-> [t \in DOMAIN st.wl |-> 0] ]

\* mutant: the ledger counters survive the reset
resetAllocations_KeepLedger(st, settings) ==
  [ ct |-> [c \in DOMAIN st.ct |-> EmptyGrid(settings)],
    tt |-> [t \in DOMAIN st.tt |-> EmptyGrid(settings)],
    alloc |-> st.alloc,
    wl |-> [t \in DOMAIN st.wl |-> 0] ]

resetAllocations(st, settings) ==
  [ ct |-> [c \in DOMAIN st.ct |-> EmptyGrid(settings)],
    tt |-> [t \in DOMAIN st.tt |-> EmptyGrid(settings)],
    alloc |-> [k \in DOMAIN st.alloc |->
                 [st.alloc[k] EXCEPT !.allocatedPeriods = 0]],
    wl |-> [t \in DOMAIN st.wl |-> 0] ]

-----------------------------------------------------------------------------
(* Slot availability oracle and assignment *)

getRemainingPeriods(st, data) ==
  LET k == SubjectKeyOf(data) IN
  IF k \in DOMAIN st.alloc
    THEN st.alloc[k].requiredPeriods - st.alloc[k].allocatedPeriods
    ELSE 0

\* mutant: the teacher-grid cell is not consulted
isSlotAvailable_ClassOnly(st, settings, day, period, className, staffString) ==
  /\ className \in DOMAIN st.ct
  /\ st.ct[className][day][period].subject = Undefined
  /\ \A staff \in Range(parseStaffMembers(staffString)) :
       /\ staff \in DOMAIN st.tt
       /\ (IF staff \in DOMAIN st.wl THEN st.wl[staff] ELSE 0)
            < settings.maxTeacherPeriodsPerWeek

\* mutant: the weekly maximum is not consulted
isSlotAvailable_NoCap(st, settings, day, period, className, staffString) ==
  /\ className \in DOMAIN st.ct
  /\ st.ct[className][day][period].subject = Undefined
  /\ \A staff \in Range(parseStaffMembers(staffString)) :
       /\ staff \in DOMAIN st.tt
       /\ st.tt[staff][day][period].subject = Undefined

isSlotAvailable(st, settings, day, period, className, staffString) ==
  /\ className \in DOMAIN st.ct
  /\ st.ct[className][day][period].subject = Undefined
  /\ \A staff \in Range(parseStaffMembers(staffString)) :
       /\ staff \in DOMAIN st.tt
       /\ st.tt[staff][day][period].subject = Undefined
       /\ (IF staff \in DOMAIN st.wl THEN st.wl[staff] ELSE 0)
            < settings.maxTeacherPeriodsPerWeek

isLabSlotAvailable(st, settings, day, period, className, staff, subject) ==
  /\ (period + 1) # settings.lunchPeriod
  /\ isSlotAvailable(st, settings, day, period, className, staff)
  /\ ~ ( /\ className \in DOMAIN st.ct
         /\ isLabSubject(st.ct[className][day][period].subject)
         /\ st.ct[className][day][period].subject # subject )

\* the class-grid write shared by both assign operations
WriteClassCell(st, day, period, className, subject, staffShown) ==
  IF className \in DOMAIN st.ct
    THEN [st EXCEPT !.ct[className][day][period] =
            [subject |-> subject, staff |-> staffShown, className |-> className]]
    ELSE st

WriteTeacherCell(st, day, period, className, subject, staff) ==
  IF staff \in DOMAIN st.tt
    THEN [st EXCEPT !.tt[staff][day][period] =
            [subject |-> subject, staff |-> <<staff>>, className |-> className]]
    ELSE st

AddWorkload(st, staff, n) ==
  [st EXCEPT !.wl = [t \in (DOMAIN st.wl) \cup {staff} |->
                       IF t = staff
                         THEN (IF staff \in DOMAIN st.wl THEN st.wl[staff] ELSE 0) + n
                         ELSE st.wl[t]]]

RECURSIVE AssignStaffFrom(_, _, _, _, _, _, _)
AssignStaffFrom(st, day, period, data, className, members, i) ==
  IF i > Len(members) THEN st
  ELSE AssignStaffFrom(
         AddWorkload(
           WriteTeacherCell(st, day, period, className, data.subject, members[i]),
           members[i], 1),
         day, period, data, className, members, i + 1)

assignSlotWithTracking(st, day, period, data, className) ==
  AssignStaffFrom(
    WriteClassCell(st, day, period, className, data.subject, data.staff),
    day, period, data, className, parseStaffMembers(data.staff), 1)

RECURSIVE LabStaffFrom(_, _, _, _, _, _, _)
LabStaffFrom(st, day, period, data, className, members, i) ==
  IF i > Len(members) THEN st
  ELSE LabStaffFrom(
         WriteTeacherCell(st, day, period, className, data.subject, members[i]),
         day, period, data, className, members, i + 1)

\* mutant: only the first staff member of a lab gets the teacher-grid cell
assignLabSlotWithTracking_PrimaryOnly(st, day, period, data, className) ==
  LabStaffFrom(
    WriteClassCell(st, day, period, className, data.subject,
                   parseStaffMembers(data.staff)),
    day, period, data, className,
    SubSeq(parseStaffMembers(data.staff), 1, 1), 1)

\* the class cell shows staffMembers.join(', '): the parsed pieces
assignLabSlotWithTracking(st, day, period, data, className) ==
  LabStaffFrom(
    WriteClassCell(st, day, period, className, data.subject,
                   parseStaffMembers(data.staff)),
    day, period, data, className, parseStaffMembers(data.staff), 1)

\* mutant: the counter is raised without regard to the cell just written
IncAllocated_Twice(st, data) ==
  [st EXCEPT !.alloc[SubjectKeyOf(data)].allocatedPeriods = @ + 2]

IncAllocated(st, data) ==
  [st EXCEPT !.alloc[SubjectKeyOf(data)].allocatedPeriods = @ + 1]

\* mutant: the day is never skipped
hasDifferentLabOnDay_Never(st, className, day, currentSubject) == FALSE

hasDifferentLabOnDay(st, className, day, currentSubject) ==
  /\ className \in DOMAIN st.ct
  /\ \E p \in DOMAIN st.ct[className][day] :
       LET s == st.ct[className][day][p].subject IN
       s # Undefined /\ isLabSubject(s) /\ s # currentSubject

\* mutant: only the first period of the day is looked at
hasSubjectOnDay_FirstPeriod(st, className, day, subject) ==
  /\ className \in DOMAIN st.ct
  /\ st.ct[className][day][0].subject = subject

hasSubjectOnDay(st, className, day, subject) ==
  /\ className \in DOMAIN st.ct
  /\ \E p \in DOMAIN st.ct[className][day] :
       st.ct[className][day][p].subject = subject

\* mutant: a day that already holds the subject is not avoided
wouldCreateRepetition_Never(st, day, period, className, subject) == FALSE

wouldCreateRepetition(st, day, period, className, subject) ==
  IF isLabSubject(subject) THEN FALSE
  ELSE hasSubjectOnDay(st, className, day, subject)

\* mutant: break periods are not skipped
IsLunchOrBreak_LunchOnly(settings, period) ==
  period + 1 = settings.lunchPeriod

IsLunchOrBreak(settings, period) ==
  \/ period + 1 = settings.lunchPeriod
  \/ (period + 1) \in settings.breakPeriods


-----------------------------------------------------------------------------
(* Slot orders of the allocators' nested loops *)

SeqFromTo(a, b) == [i \in 1..(IF b >= a THEN b - a + 1 ELSE 0) |-> a + i - 1]

\* period indices from start on that are neither lunch nor a break
TeachingPeriodsFrom(settings, start) ==
  SelectSeq(SeqFromTo(start, TotalPeriods(settings) - 1),
            LAMBDA p : ~IsLunchOrBreak(settings, p))

\* for (period ...) for (day ...): period-major
PeriodMajorSlots(settings, start) ==
  LET ps == TeachingPeriodsFrom(settings, start) IN
  [i \in 1..(Len(ps) * NumDays) |->
     [day |-> (i - 1) % NumDays, period |-> ps[((i - 1) \div NumDays) + 1]]]

\* for (day ...) for (period ...): day-major
DayMajorSlots(settings) ==
  LET ps == TeachingPeriodsFrom(settings, 0) IN
  [i \in 1..(Len(ps) * NumDays) |->
     [day |-> (i - 1) \div Len(ps), period |-> ps[((i - 1) % Len(ps)) + 1]]]

\* mutant: the loops lack the allocatedPeriods < requiredPeriods guard
RECURSIVE ScanAssign_Unguarded(_, _, _, _, _, _)
ScanAssign_Unguarded(st, settings, data, className, slots, i) ==
  IF i > Len(slots)
    THEN st
  ELSE IF isSlotAvailable(st, settings, slots[i].day, slots[i].period,
                          className, data.staff)
    THEN ScanAssign_Unguarded(
           IncAllocated(
             assignSlotWithTracking(st, slots[i].day, slots[i].period, data, className),
             data),
           settings, data, className, slots, i + 1)
  ELSE ScanAssign_Unguarded(st, settings, data, className, slots, i + 1)

\* one pass of "if available then assign, allocatedPeriods++" over slots,
\* guarded by allocatedPeriods < requiredPeriods
RECURSIVE ScanAssign(_, _, _, _, _, _)
ScanAssign(st, settings, data, className, slots, i) ==
  IF \/ i > Len(slots)
     \/ getRemainingPeriods(st, data) <= 0
    THEN st
  ELSE IF isSlotAvailable(st, settings, slots[i].day, slots[i].period,
                          className, data.staff)
    THEN ScanAssign(
           IncAllocated(
             assignSlotWithTracking(st, slots[i].day, slots[i].period, data, className),
             data),
           settings, data, className, slots, i + 1)
  ELSE ScanAssign(st, settings, data, className, slots, i + 1)

-----------------------------------------------------------------------------
(* Category allocators *)

\* Math.floor(totalPeriodsPerDay * 0.7)
LibraryStart(settings) == (TotalPeriods(settings) * 7) \div 10

\* mutant: no bias towards the late periods
GamesStart_Morning(settings) == 0

GamesStart(settings) == (TotalPeriods(settings) * 6) \div 10

\* mutant: only the scan over any slot, without the late periods first
allocateLibraryPeriods_AnySlot(st, settings, data, className) ==
  IF getRemainingPeriods(st, data) <= 0 THEN st
  ELSE ScanAssign(st, settings, data, className, DayMajorSlots(settings), 1)

allocateLibraryPeriods(st, settings, data, className) ==
  IF getRemainingPeriods(st, data) <= 0 THEN st
  ELSE ScanAssign(
         ScanAssign(st, settings, data, className,
                    PeriodMajorSlots(settings, LibraryStart(settings)), 1),
         settings, data, className, DayMajorSlots(settings), 1)

allocateGamesPeriods(st, settings, data, className) ==
  IF getRemainingPeriods(st, data) <= 0 THEN st
  ELSE ScanAssign(
         ScanAssign(st, settings, data, className,
                    PeriodMajorSlots(settings, GamesStart(settings)), 1),
         settings, data, className, DayMajorSlots(settings), 1)

\* index of the first slot of slots passing Test, 0 when there is none
FirstSlot(slots, Test(_)) ==
  LET hits == { i \in 1..Len(slots) : Test(slots[i]) } IN
  IF hits = {} THEN 0
  ELSE CHOOSE i \in hits : \A j \in hits : i <= j

RECURSIVE RegularFrom(_, _, _, _, _, _)
RegularFrom(st, settings, data, className, i, remainingPeriods) ==
  IF i >= remainingPeriods THEN st
  ELSE
    LET slots == DayMajorSlots(settings)
        Avail(s) == isSlotAvailable(st, settings, s.day, s.period, className, data.staff)
        Fresh(s) == Avail(s) /\
                    ~wouldCreateRepetition(st, s.day, s.period, className, data.subject)
        first == FirstSlot(slots, Fresh)
        any == FirstSlot(slots, Avail)
        pick == IF first # 0 THEN first ELSE any
    IN IF pick = 0 THEN st
       ELSE RegularFrom(
              IncAllocated(
                assignSlotWithTracking(st, slots[pick].day, slots[pick].period,
                                       data, className),
                data),
              settings, data, className, i + 1, remainingPeriods)

allocateRegularPeriods(st, settings, data, className) ==
  IF getRemainingPeriods(st, data) <= 0 THEN st
  ELSE RegularFrom(st, settings, data, className, 0, getRemainingPeriods(st, data))

\* mutant: a break period is stepped over, neither taken nor ending the run
RECURSIVE LabScan_SkipBreaks(_, _, _, _, _, _, _, _)
LabScan_SkipBreaks(st, settings, day, data, className, remainingPeriods, period, currentSequence) ==
  IF period >= TotalPeriods(settings) THEN <<>>
  ELSE IF period + 1 = settings.lunchPeriod
    THEN IF Len(currentSequence) >= remainingPeriods
           THEN SubSeq(currentSequence, 1, remainingPeriods)
           ELSE LabScan_SkipBreaks(st, settings, day, data, className,
                                   remainingPeriods, period + 1, <<>>)
  ELSE IF (period + 1) \in settings.breakPeriods
    THEN LabScan_SkipBreaks(st, settings, day, data, className,
                            remainingPeriods, period + 1, currentSequence)
  ELSE IF isLabSlotAvailable(st, settings, day, period, className,
                             data.staff, data.subject)
    THEN IF Len(currentSequence) + 1 >= remainingPeriods
           THEN SubSeq(Append(currentSequence, period), 1, remainingPeriods)
           ELSE LabScan_SkipBreaks(st, settings, day, data, className,
                                   remainingPeriods, period + 1,
                                   Append(currentSequence, period))
  ELSE IF Len(currentSequence) >= remainingPeriods
    THEN SubSeq(currentSequence, 1, remainingPeriods)
    ELSE LabScan_SkipBreaks(st, settings, day, data, className,
                            remainingPeriods, period + 1, <<>>)

\* the period scan of one day: consecutiveSlots, <<>> when the day has no run
RECURSIVE LabScan(_, _, _, _, _, _, _, _)
LabScan(st, settings, day, data, className, remainingPeriods, period, currentSequence) ==
  IF period >= TotalPeriods(settings) THEN <<>>
  ELSE IF period + 1 = settings.lunchPeriod
    THEN IF Len(currentSequence) >= remainingPeriods
           THEN SubSeq(currentSequence, 1, remainingPeriods)
           ELSE LabScan(st, settings, day, data, className, remainingPeriods,
                        period + 1, <<>>)
  ELSE IF isLabSlotAvailable(st, settings, day, period, className,
                             data.staff, data.subject)
    THEN IF Len(currentSequence) + 1 >= remainingPeriods
           THEN SubSeq(Append(currentSequence, period), 1, remainingPeriods)
           ELSE LabScan(st, settings, day, data, className, remainingPeriods,
                        period + 1, Append(currentSequence, period))
  ELSE IF Len(currentSequence) >= remainingPeriods
    THEN SubSeq(currentSequence, 1, remainingPeriods)
    ELSE LabScan(st, settings, day, data, className, remainingPeriods,
                 period + 1, <<>>)

RECURSIVE LabAssignRun(_, _, _, _, _, _)
LabAssignRun(st, day, data, className, consecutiveSlots, i) ==
  IF i > Len(consecutiveSlots) THEN st
  ELSE LabAssignRun(
         IncAllocated(
           assignLabSlotWithTracking(st, day, consecutiveSlots[i], data, className),
           data),
         day, data, className, consecutiveSlots, i + 1)

\* mutant: only the first staff member of the lab gets the workload
LabWorkloadFrom_FirstOnly(st, members, n, i) ==
  IF Len(members) = 0 THEN st ELSE AddWorkload(st, members[1], n)

RECURSIVE LabWorkloadFrom(_, _, _, _)
LabWorkloadFrom(st, members, n, i) ==
  IF i > Len(members) THEN st
  ELSE LabWorkloadFrom(AddWorkload(st, members[i], n), members, n, i + 1)

RECURSIVE LabFromDay(_, _, _, _, _, _)
LabFromDay(st, settings, data, className, remainingPeriods, day) ==
  IF day >= NumDays THEN st
  ELSE IF hasDifferentLabOnDay(st, className, day, data.subject)
    THEN LabFromDay(st, settings, data, className, remainingPeriods, day + 1)
  ELSE
    LET consecutiveSlots ==
          LabScan(st, settings, day, data, className, remainingPeriods, 0, <<>>)
    IN IF Len(consecutiveSlots) >= remainingPeriods
         THEN LabWorkloadFrom(
                LabAssignRun(st, day, data, className, consecutiveSlots, 1),
                parseStaffMembers(data.staff), remainingPeriods, 1)
         ELSE LabFromDay(st, settings, data, className, remainingPeriods, day + 1)

\* mutant: when no day holds the whole run, a shorter block is placed instead
RECURSIVE allocateAllLabPeriods_Splitting(_, _, _, _, _)
allocateAllLabPeriods_Splitting(st, settings, data, className, remainingPeriods) ==
  LET whole == LabFromDay(st, settings, data, className, remainingPeriods, 0) IN
  IF whole = st /\ remainingPeriods > 1
    THEN allocateAllLabPeriods_Splitting(st, settings, data, className,
                                         remainingPeriods - 1)
    ELSE whole

\* mutant: the search over the days starts on Tuesday
allocateAllLabPeriods_FromTuesday(st, settings, data, className, remainingPeriods) ==
  LabFromDay(st, settings, data, className, remainingPeriods, 1)

allocateAllLabPeriodsConsecutively(st, settings, data, className, remainingPeriods) ==
  LabFromDay(st, settings, data, className, remainingPeriods, 0)

allocateConsecutivePeriods(st, settings, data, className) ==
  IF getRemainingPeriods(st, data) <= 0 THEN st
  ELSE allocateAllLabPeriodsConsecutively(st, settings, data, className,
                                          getRemainingPeriods(st, data))


-----------------------------------------------------------------------------
(* Priority ordering *)

\* a.staff.includes(pref.teacherName) for some preference row
HasPreference(data, prefs) ==
  \E t \in prefs : t \in Range(data.staff)

\* teacherWorkload.get(a.staff) || 0: the lookup uses the unparsed string
WorkloadOfString(wl, staffString) ==
  IF Len(staffString) = 1 /\ staffString[1] \in DOMAIN wl
    THEN wl[staffString[1]]
    ELSE 0

\* mutant: the number of periods is compared before the lab test
ComparePriority_PeriodsFirst(a, b, prefs, wl) ==
  IF a.periods # b.periods THEN b.periods - a.periods
  ELSE IF isLabSubject(a.subject) /\ ~isLabSubject(b.subject) THEN -1
  ELSE IF ~isLabSubject(a.subject) /\ isLabSubject(b.subject) THEN 1
  ELSE SubjectRank(a.subject) - SubjectRank(b.subject)

\* the comparator of getSortedSubjectsByPriority: < 0, 0 or > 0
ComparePriority(a, b, prefs, wl) ==
  IF isLabSubject(a.subject) /\ ~isLabSubject(b.subject) THEN -1
  ELSE IF ~isLabSubject(a.subject) /\ isLabSubject(b.subject) THEN 1
  ELSE IF a.periods # b.periods THEN b.periods - a.periods
  ELSE IF HasPreference(a, prefs) /\ ~HasPreference(b, prefs) THEN -1
  ELSE IF ~HasPreference(a, prefs) /\ HasPreference(b, prefs) THEN 1
  ELSE IF WorkloadOfString(wl, a.staff) # WorkloadOfString(wl, b.staff)
    THEN WorkloadOfString(wl, a.staff) - WorkloadOfString(wl, b.staff)
  ELSE SubjectRank(a.subject) - SubjectRank(b.subject)

\* Array.prototype.sort is stable: x goes before the first y with compare(x, y) < 0
InsertByPriority(sorted, x, prefs, wl) ==
  LET later == { i \in 1..Len(sorted) : ComparePriority(x, sorted[i], prefs, wl) < 0 }
      at == IF later = {} THEN Len(sorted) + 1
            ELSE CHOOSE i \in later : \A j \in later : i <= j
  IN SubSeq(sorted, 1, at - 1) \o <<x>> \o SubSeq(sorted, at, Len(sorted))

RECURSIVE SortFrom(_, _, _, _, _)
SortFrom(rows, sorted, prefs, wl, i) ==
  IF i > Len(rows) THEN sorted
  ELSE SortFrom(rows, InsertByPriority(sorted, rows[i], prefs, wl), prefs, wl, i + 1)

getSortedSubjectsByPriority(rows, prefs, wl) ==
  SortFrom(rows, <<>>, prefs, wl, 1)

\* sortedSubjects.forEach: the allocator of each row, in order
RECURSIVE DispatchFrom(_, _, _, _)
DispatchFrom(st, settings, sorted, i) ==
  IF i > Len(sorted) THEN st
  ELSE LET data == sorted[i]
           className == ClassNameOf(data)
       IN DispatchFrom(
            IF isLabSubject(data.subject)
              THEN allocateConsecutivePeriods(st, settings, data, className)
            ELSE IF isLibrarySubject(data.subject)
              THEN allocateLibraryPeriods(st, settings, data, className)
            ELSE IF isGamesSubject(data.subject)
              THEN allocateGamesPeriods(st, settings, data, className)
            ELSE allocateRegularPeriods(st, settings, data, className),
            settings, sorted, i + 1)

allocateSubjects(st, settings, rows, prefs) ==
  DispatchFrom(st, settings, getSortedSubjectsByPriority(rows, prefs, st.wl), 1)

-----------------------------------------------------------------------------
(* Scoring.  The score is the mean of allocatedPeriods / requiredPeriods; it *)
(* is kept as the numerator over the common denominator                      *)
(* ScoreDenominator = (product of requiredPeriods) * (ledger size), which    *)
(* is the same for every attempt of a run.                                   *)

RECURSIVE ProductOfRequired(_, _)
ProductOfRequired(alloc, keys) ==
  IF keys = {} THEN 1
  ELSE LET k == CHOOSE x \in keys : TRUE IN
       alloc[k].requiredPeriods * ProductOfRequired(alloc, keys \ {k})

RECURSIVE SumOfRatios(_, _, _)
SumOfRatios(alloc, keys, product) ==
  IF keys = {} THEN 0
  ELSE LET k == CHOOSE x \in keys : TRUE IN
       alloc[k].allocatedPeriods * (product \div alloc[k].requiredPeriods)
         + SumOfRatios(alloc, keys \ {k}, product)

ScoreDenominator(alloc) ==
  ProductOfRequired(alloc, DOMAIN alloc) * Cardinality(DOMAIN alloc)

calculateAllocationScore(alloc) ==
  SumOfRatios(alloc, DOMAIN alloc, ProductOfRequired(alloc, DOMAIN alloc))

PerfectPercent == 99
GoodEnoughPercent == 95
minAttempts == 10

\* score >= percent / 100
ScoreAtLeast(num, alloc, percent) ==
  100 * num >= percent * ScoreDenominator(alloc)

consolidateTeacherSchedules(tt) ==
  [t \in DOMAIN tt |->
     [d \in DOMAIN tt[t] |->
        [p \in DOMAIN tt[t][d] |->
           IF tt[t][d][p].subject # Undefined
             THEN [subject |-> tt[t][d][p].subject,
                   staff |-> tt[t][d][p].staff,
                   className |-> tt[t][d][p].className]
             ELSE EmptySlot]]]

-----------------------------------------------------------------------------
(* State machine *)

Heap ==
  [ct |-> classTimetables, tt |-> teacherTimetables,
   alloc |-> subjectAllocations, wl |-> teacherWorkload]

SetHeap(st) ==
  /\ classTimetables' = st.ct
  /\ teacherTimetables' = st.tt
  /\ subjectAllocations' = st.alloc
  /\ teacherWorkload' = st.wl

\* bestClassTimetables / bestTeacherTimetables start as new Map(this.xxx): the
\* same grid objects (alias); an improving attempt stores a deep copy
BestAlias == [alias |-> TRUE, ct |-> <<>>, tt |-> <<>>]

\* mutant: the copy taken before the loop is a deep copy and is never replaced
bestClassTimetables_Initial ==
  [c \in DOMAIN classTimetables |-> EmptyGrid(scheduleSettings)]

bestClassTimetables == IF best.alias THEN classTimetables ELSE best.ct

bestTeacherTimetables == IF best.alias THEN teacherTimetables ELSE best.tt

\* bestAllocations = new Map(this.subjectAllocations) copies the map, not the
\* SubjectAllocation objects: it reads the live counters at every moment
bestAllocations == subjectAllocations

NothingReturned == [classTimetables |-> <<>>, teacherTimetables |-> <<>>]

\* parseCSV has not been called
NotParsed == [error |-> "", data |-> <<>>, called |-> FALSE]

\* the state the constructor leaves for the rows and settings it was given
Constructed ==
  /\ LET st == initializeAllocations(subjectData, scheduleSettings) IN
       /\ classTimetables = st.ct
       /\ teacherTimetables = st.tt
       /\ subjectAllocations = st.alloc
       /\ teacherWorkload = st.wl
  /\ pc = "constructed"
  /\ attempt = 0
  /\ sortedSubjects = <<>>
  /\ nextRow = 0
  /\ bestScore = 0
  /\ best = BestAlias
  /\ returned = NothingReturned
  /\ subjectPeriodUsage = <<>>
  /\ libraryOccupancy = <<>>
  /\ csvContent = <<>>
  /\ parsed = NotParsed

Init ==
  /\ subjectData \in RowLists
  /\ teacherPreferences \in PreferenceChoices
  /\ scheduleSettings \in SettingsChoices
  /\ Constructed

InitLongWeek ==
  /\ subjectData \in LongWeekRowLists
  /\ teacherPreferences \in PreferenceChoices
  /\ scheduleSettings \in LongWeekSettings
  /\ Constructed

inputs == <<subjectData, teacherPreferences, scheduleSettings>>

\* what parseCSV reads and writes
csvFields == <<csvContent, parsed>>

\* the fields only the repair-loop generator has
repairFields == <<subjectPeriodUsage, libraryOccupancy>>

\* generateTimetables, up to the loop
Generate ==
  /\ pc = "constructed"
  /\ SetHeap(resetAllocations(Heap, scheduleSettings))
  /\ bestScore' = 0
  /\ best' = BestAlias
  /\ attempt' = 0
  /\ pc' = "loop"
  /\ UNCHANGED <<inputs, csvFields, repairFields, sortedSubjects, nextRow, returned>>

\* loop head: resetAllocations, then allocateSubjects sorts the rows
BeginAttempt ==
  /\ pc = "loop"
  /\ attempt < maxAttempts
  /\ SetHeap(resetAllocations(Heap, scheduleSettings))
  /\ sortedSubjects' =
       getSortedSubjectsByPriority(subjectData, teacherPreferences,
         resetAllocations(Heap, scheduleSettings).wl)
  /\ nextRow' = 1
  /\ pc' = "allocate"
  /\ UNCHANGED <<inputs, csvFields, repairFields, attempt, bestScore, best, returned>>

CurrentRow == sortedSubjects[nextRow]

Dispatching ==
  /\ pc = "allocate"
  /\ nextRow <= Len(sortedSubjects)

\* mutant: a lab that cannot be placed ends the pass over the rows
AllocateLab_AbortOnShortfall ==
  /\ Dispatching
  /\ isLabSubject(CurrentRow.subject)
  /\ LET st == allocateConsecutivePeriods(Heap, scheduleSettings, CurrentRow,
                                          ClassNameOf(CurrentRow))
     IN /\ SetHeap(st)
        /\ nextRow' = IF getRemainingPeriods(st, CurrentRow) > 0
                        THEN Len(sortedSubjects) + 1
                        ELSE nextRow + 1
  /\ UNCHANGED <<inputs, csvFields, repairFields, pc, attempt, sortedSubjects, bestScore, best, returned>>

AllocateLab ==
  /\ Dispatching
  /\ isLabSubject(CurrentRow.subject)
  /\ SetHeap(allocateConsecutivePeriods(Heap, scheduleSettings, CurrentRow,
                                        ClassNameOf(CurrentRow)))
  /\ nextRow' = nextRow + 1
  /\ UNCHANGED <<inputs, csvFields, repairFields, pc, attempt, sortedSubjects, bestScore, best, returned>>

AllocateLibrary ==
  /\ Dispatching
  /\ ~isLabSubject(CurrentRow.subject)
  /\ isLibrarySubject(CurrentRow.subject)
  /\ SetHeap(allocateLibraryPeriods(Heap, scheduleSettings, CurrentRow,
                                    ClassNameOf(CurrentRow)))
  /\ nextRow' = nextRow + 1
  /\ UNCHANGED <<inputs, csvFields, repairFields, pc, attempt, sortedSubjects, bestScore, best, returned>>

AllocateGames ==
  /\ Dispatching
  /\ ~isLabSubject(CurrentRow.subject)
  /\ ~isLibrarySubject(CurrentRow.subject)
  /\ isGamesSubject(CurrentRow.subject)
  /\ SetHeap(allocateGamesPeriods(Heap, scheduleSettings, CurrentRow,
                                  ClassNameOf(CurrentRow)))
  /\ nextRow' = nextRow + 1
  /\ UNCHANGED <<inputs, csvFields, repairFields, pc, attempt, sortedSubjects, bestScore, best, returned>>

AllocateRegular ==
  /\ Dispatching
  /\ ~isLabSubject(CurrentRow.subject)
  /\ ~isLibrarySubject(CurrentRow.subject)
  /\ ~isGamesSubject(CurrentRow.subject)
  /\ SetHeap(allocateRegularPeriods(Heap, scheduleSettings, CurrentRow,
                                    ClassNameOf(CurrentRow)))
  /\ nextRow' = nextRow + 1
  /\ UNCHANGED <<inputs, csvFields, repairFields, pc, attempt, sortedSubjects, bestScore, best, returned>>

\* mutant: the loop counter is not advanced
ScoreAttempt_NoIncrement ==
  /\ pc = "allocate"
  /\ nextRow > Len(sortedSubjects)
  /\ LET currentScore == calculateAllocationScore(subjectAllocations)
         improved == currentScore > bestScore
         newBest == IF improved THEN currentScore ELSE bestScore
         perfect == improved /\ ScoreAtLeast(newBest, subjectAllocations, PerfectPercent)
         goodEnough == ScoreAtLeast(currentScore, subjectAllocations, GoodEnoughPercent)
                         /\ attempt >= minAttempts
     IN /\ bestScore' = newBest
        /\ best' = IF improved
                     THEN [alias |-> FALSE, ct |-> classTimetables,
                           tt |-> teacherTimetables]
                     ELSE best
        /\ IF perfect \/ goodEnough
             THEN /\ pc' = "restore"
                  /\ attempt' = attempt
             ELSE /\ pc' = "loop"
                  /\ attempt' = attempt
  /\ UNCHANGED <<inputs, csvFields, repairFields, classTimetables, teacherTimetables, subjectAllocations,
                 teacherWorkload, sortedSubjects, nextRow, returned>>

\* after allocateSubjects: score, keep the best, decide whether to break
ScoreAttempt ==
  /\ pc = "allocate"
  /\ nextRow > Len(sortedSubjects)
  /\ LET currentScore == calculateAllocationScore(subjectAllocations)
         improved == currentScore > bestScore
         newBest == IF improved THEN currentScore ELSE bestScore
         perfect == improved /\ ScoreAtLeast(newBest, subjectAllocations, PerfectPercent)
         goodEnough == ScoreAtLeast(currentScore, subjectAllocations, GoodEnoughPercent)
                         /\ attempt >= minAttempts
     IN /\ bestScore' = newBest
        /\ best' = IF improved
                     THEN [alias |-> FALSE, ct |-> classTimetables,
                           tt |-> teacherTimetables]
                     ELSE best
        /\ IF perfect \/ goodEnough
             THEN /\ pc' = "restore"
                  /\ attempt' = attempt
             ELSE /\ pc' = "loop"
                  /\ attempt' = attempt + 1
  /\ UNCHANGED <<inputs, csvFields, repairFields, classTimetables, teacherTimetables, subjectAllocations,
                 teacherWorkload, sortedSubjects, nextRow, returned>>

\* the for loop ends with the budget used up
ExhaustAttempts ==
  /\ pc = "loop"
  /\ attempt >= maxAttempts
  /\ pc' = "restore"
  /\ UNCHANGED <<inputs, csvFields, repairFields, classTimetables, teacherTimetables, subjectAllocations,
                 teacherWorkload, attempt, sortedSubjects, nextRow, bestScore,
                 best, returned>>

\* restore the best results and return them
ReturnBest ==
  /\ pc = "restore"
  /\ classTimetables' = bestClassTimetables
  /\ teacherTimetables' = bestTeacherTimetables
  /\ subjectAllocations' = bestAllocations
  /\ returned' = [classTimetables |-> bestClassTimetables,
                  teacherTimetables |-> consolidateTeacherSchedules(bestTeacherTimetables)]
  /\ pc' = "done"
  /\ UNCHANGED <<inputs, csvFields, repairFields, teacherWorkload, attempt, sortedSubjects, nextRow,
                 bestScore, best>>

Next ==
  \/ Generate
  \/ BeginAttempt
  \/ AllocateLab
  \/ AllocateLibrary
  \/ AllocateGames
  \/ AllocateRegular
  \/ ScoreAttempt
  \/ ExhaustAttempts
  \/ ReturnBest

Spec == Init /\ [][Next]_vars

\* the same generator on the inputs of the long week
SpecLongWeek == InitLongWeek /\ [][Next]_vars

\* one iteration of sortedSubjects.forEach, whichever allocator it calls
AllocateRow == AllocateLab \/ AllocateLibrary \/ AllocateGames \/ AllocateRegular

\* generateTimetables runs on one thread and nothing in it waits: a step that
\* can be taken is taken.  The allocator step is enabled exactly when
\* Dispatching holds (the four allocator actions split the rows between
\* them), so its weak fairness is written with that guard.
SpecLive ==
  /\ Init /\ [][Next]_vars
  /\ WF_vars(Generate)
  /\ WF_vars(BeginAttempt)
  /\ WF_vars(ScoreAttempt)
  /\ WF_vars(ExhaustAttempts)
  /\ WF_vars(ReturnBest)
  /\ ([]<>(~Dispatching) \/ []<><<AllocateRow>>_vars)

\* generateTimetables is public: a caller may call it again on the generator
\* it has already run
GenerateAgain ==
  /\ pc = "done"
  /\ SetHeap(resetAllocations(Heap, scheduleSettings))
  /\ bestScore' = 0
  /\ best' = BestAlias
  /\ attempt' = 0
  /\ pc' = "loop"
  /\ UNCHANGED <<inputs, csvFields, repairFields, sortedSubjects, nextRow, returned>>

NextRepeat ==
  \/ Generate
  \/ GenerateAgain
  \/ BeginAttempt
  \/ AllocateLab
  \/ AllocateLibrary
  \/ AllocateGames
  \/ AllocateRegular
  \/ ScoreAttempt
  \/ ExhaustAttempts
  \/ ReturnBest

SpecRepeat == Init /\ [][NextRepeat]_vars


-----------------------------------------------------------------------------
(* The repair-loop generator (lines 1934-2877): inputs and operators *)

\* let maxAttempts = 15 of the repair loop
RepairMaxAttempts == 15

NoSlot == [day |-> -1, period |-> -1]

\* teacherPreferences.find(...) found nothing
NoPreference == [teacherName |-> Undefined, preferredDay |-> Undefined, preferredPeriod |-> 0]

\* rows of the repair-loop runs: regular, games and library subjects
RepairRowChoices ==
  { [department |-> c.department, year |-> c.year, section |-> c.section,
     subject |-> s, periods |-> PeriodsOf(s), staff |-> c.staff] :
       c \in ClassStaffChoices, s \in {"Mathematics", "Games", "Library"} }
  \cup
  { [department |-> "CS", year |-> "2", section |-> "A",
     subject |-> "English", periods |-> PeriodsOf("English"), staff |-> <<"Dr. A">>] }

RepairRowLists == UNION { [1..n -> RepairRowChoices] : n \in 1..MaxRows }

\* TeacherPreference[]: no preference, or one teacher preferring Tuesday period 1
RepairPreferenceChoices ==
  { <<>>,
    << [teacherName |-> "Dr. A", preferredDay |-> "Tuesday", preferredPeriod |-> 1] >> }

DayNames == <<"monday", "tuesday", "wednesday", "thursday", "friday", "saturday">>

\* dayName.toLowerCase() of the day names the inputs use
LowerCaseDay(dayName) ==
  CASE dayName = "Monday" -> "monday"
    [] dayName = "Tuesday" -> "tuesday"
    [] dayName = "Wednesday" -> "wednesday"
    [] dayName = "Thursday" -> "thursday"
    [] dayName = "Friday" -> "friday"
    [] dayName = "Saturday" -> "saturday"
    [] OTHER -> dayName

\* days.indexOf(dayName.toLowerCase()): -1 when it is no day
getDayIndex(dayName) ==
  LET hits == { i \in 1..Len(DayNames) : DayNames[i] = LowerCaseDay(dayName) } IN
  IF hits = {} THEN -1 ELSE (CHOOSE i \in hits : TRUE) - 1

\* the object state of the repair-loop generator after its constructor
initializeDataStructures(rows, settings) ==
  [ ct |-> [c \in UniqueClasses(rows) |-> EmptyGrid(settings)],
    tt |-> [t \in UniqueTeachers(rows) |-> EmptyGrid(settings)],
    alloc |-> [k \in { SubjectKeyOf(rows[i]) : i \in 1..Len(rows) } |->
                 [allocatedPeriods |-> 0,
                  requiredPeriods |-> rows[LastRowWithKey(rows, k)].periods]],
    wl |-> [t \in UniqueTeachers(rows) |-> 0],
    usage |-> <<>>,
    lib |-> <<>> ]

\* resetAllocations of the repair-loop generator
RepairResetAllocations(st, rows, settings) ==
  [ ct |-> [c \in DOMAIN st.ct |-> EmptyGrid(settings)],
    tt |-> [t \in DOMAIN st.tt |-> EmptyGrid(settings)],
    alloc |-> [k \in DOMAIN st.alloc |->
                 [st.alloc[k] EXCEPT !.allocatedPeriods = 0]],
    wl |-> [t \in UniqueTeachers(rows) |-> 0],
    usage |-> [k \in { SubjectKeyOf(rows[i]) : i \in 1..Len(rows) } |-> {}],
    lib |-> <<>> ]

isAllocationComplete(alloc) ==
  \A k \in DOMAIN alloc : alloc[k].allocatedPeriods >= alloc[k].requiredPeriods

\* the comparator of getSortedSubjects: < 0, 0 or > 0
CompareRemaining(a, b, st) ==
  IF isLabSubject(a.subject) # isLabSubject(b.subject)
    THEN (IF isLabSubject(b.subject) THEN 1 ELSE -1)
  ELSE IF getRemainingPeriods(st, a) # getRemainingPeriods(st, b)
    THEN getRemainingPeriods(st, b) - getRemainingPeriods(st, a)
  ELSE IF WorkloadOfString(st.wl, a.staff) # WorkloadOfString(st.wl, b.staff)
    THEN WorkloadOfString(st.wl, a.staff) - WorkloadOfString(st.wl, b.staff)
  ELSE SubjectRank(a.subject) - SubjectRank(b.subject)

InsertByRemaining(sorted, x, st) ==
  LET later == { i \in 1..Len(sorted) : CompareRemaining(x, sorted[i], st) < 0 }
      at == IF later = {} THEN Len(sorted) + 1
            ELSE CHOOSE i \in later : \A j \in later : i <= j
  IN SubSeq(sorted, 1, at - 1) \o <<x>> \o SubSeq(sorted, at, Len(sorted))

RECURSIVE SortByRemainingFrom(_, _, _, _)
SortByRemainingFrom(rows, sorted, st, i) ==
  IF i > Len(rows) THEN sorted
  ELSE SortByRemainingFrom(rows, InsertByRemaining(sorted, rows[i], st), st, i + 1)

getSortedSubjects(rows, st) == SortByRemainingFrom(rows, <<>>, st, 1)

\* staffMembers[0] || subjectData.staff: a staff string without a name is
\* the blank string
PrimaryStaffOf(data) ==
  IF Len(parseStaffMembers(data.staff)) > 0
    THEN parseStaffMembers(data.staff)[1]
    ELSE ""

\* teacherWorkload.get(name) || 0
WorkloadOf(wl, name) == IF name \in DOMAIN wl THEN wl[name] ELSE 0

\* subjectPeriodUsage.get(key) || new Set()
UsedPeriods(st, subjectClassKey) ==
  IF subjectClassKey \in DOMAIN st.usage THEN st.usage[subjectClassKey] ELSE {}

\* the class cell is free and so is the cell of every member that has a grid
isSlotAvailableForAllStaff(st, day, period, className, staffMembers) ==
  /\ className \in DOMAIN st.ct
  /\ st.ct[className][day][period].subject = Undefined
  /\ \A i \in 1..Len(staffMembers) :
       staffMembers[i] \in DOMAIN st.tt
         => st.tt[staffMembers[i]][day][period].subject = Undefined

\* teacherTimetables.get(teacher) with the staff string as written in the
\* row: only a string that is exactly one teacher's name finds a grid
isSlotAvailableBasic(st, day, period, className, teacher) ==
  /\ className \in DOMAIN st.ct
  /\ Len(teacher) = 1
  /\ teacher[1] \in DOMAIN st.tt
  /\ st.ct[className][day][period].subject = Undefined
  /\ st.tt[teacher[1]][day][period].subject = Undefined

\* number of occupied cells of one day of a grid
DayLoad(grid, day) ==
  Cardinality({ p \in DOMAIN grid[day] : grid[day][p].subject # Undefined })

calculateSlotScore(st, settings, day, period, className, teacher) ==
  100
  + (10 - period) * 5
  - (IF className \in DOMAIN st.ct THEN DayLoad(st.ct[className], day) * 10 ELSE 0)
  - (IF teacher \in DOMAIN st.tt THEN DayLoad(st.tt[teacher], day) * 8 ELSE 0)
  - (IF /\ teacher \in DOMAIN st.tt
        /\ period > 0
        /\ st.tt[teacher][day][period - 1].subject # Undefined
       THEN 15 ELSE 0)
  - (IF /\ teacher \in DOMAIN st.tt
        /\ period < TotalPeriods(settings) - 1
        /\ st.tt[teacher][day][period + 1].subject # Undefined
       THEN 15 ELSE 0)

\* the best-scored teaching slot whose period number the subject has not
\* used yet; the sort is stable, so ties go to the earlier slot of the scan
findOptimalSlotWithAntiRepetition(st, settings, className, teacher, subjectClassKey, allStaffMembers) ==
  LET slots == DayMajorSlots(settings)
      availableSlots ==
        { i \in 1..Len(slots) :
            /\ (slots[i].period + 1) \notin UsedPeriods(st, subjectClassKey)
            /\ isSlotAvailableForAllStaff(st, slots[i].day, slots[i].period,
                                          className, allStaffMembers) }
      score(i) == calculateSlotScore(st, settings, slots[i].day, slots[i].period,
                                     className, teacher) + 100
  IN IF availableSlots = {} THEN NoSlot
     ELSE slots[CHOOSE i \in availableSlots :
                  \A j \in availableSlots :
                    \/ score(i) > score(j)
                    \/ score(i) = score(j) /\ i <= j]

\* the row's preferred slot, then the teacher's
getPreferredSlots(data, teacherPreference) ==
  (IF /\ {"preferredDay", "preferredPeriod"} \subseteq DOMAIN data
      /\ getDayIndex(data.preferredDay) # -1
     THEN << [day |-> getDayIndex(data.preferredDay),
              period |-> data.preferredPeriod - 1] >>
     ELSE << >>)
  \o
  (IF /\ teacherPreference # NoPreference
      /\ getDayIndex(teacherPreference.preferredDay) # -1
     THEN << [day |-> getDayIndex(teacherPreference.preferredDay),
              period |-> teacherPreference.preferredPeriod - 1] >>
     ELSE << >>)

findBestSlotWithAntiRepetition(st, settings, prefs, data, className) ==
  LET staffMembers == parseStaffMembers(data.staff)
      primaryStaff == PrimaryStaffOf(data)
      found == { i \in 1..Len(prefs) : prefs[i].teacherName = primaryStaff }
      teacherPreference ==
        IF found = {} THEN NoPreference
        ELSE prefs[CHOOSE i \in found : \A j \in found : i <= j]
      subjectClassKey == SubjectKeyOf(data)
      preferredSlots == getPreferredSlots(data, teacherPreference)
      usable == { i \in 1..Len(preferredSlots) :
                    /\ (preferredSlots[i].period + 1) \notin UsedPeriods(st, subjectClassKey)
                    /\ isSlotAvailableForAllStaff(st, preferredSlots[i].day,
                                                  preferredSlots[i].period,
                                                  className, staffMembers) }
  IN IF WorkloadOf(st.wl, primaryStaff) >= settings.maxTeacherPeriodsPerWeek
       THEN NoSlot
     ELSE IF usable # {}
       THEN preferredSlots[CHOOSE i \in usable : \A j \in usable : i <= j]
     ELSE findOptimalSlotWithAntiRepetition(st, settings, className, primaryStaff,
                                            subjectClassKey, staffMembers)

\* the first teaching slot that is free for the class and for the teacher
\* named by the row's staff string
findSlotWithRelaxedConstraints(st, settings, data, className) ==
  LET slots == DayMajorSlots(settings)
      availableSlots ==
        { i \in 1..Len(slots) :
            isSlotAvailableBasic(st, slots[i].day, slots[i].period,
                                 className, data.staff) }
  IN IF availableSlots = {} THEN NoSlot
     ELSE slots[CHOOSE i \in availableSlots : \A j \in availableSlots : i <= j]

RECURSIVE TeacherCellsFrom(_, _, _, _, _, _)
TeacherCellsFrom(st, slot, data, className, members, i) ==
  IF i > Len(members) THEN st
  ELSE TeacherCellsFrom(
         WriteTeacherCell(st, slot.day, slot.period, className, data.subject, members[i]),
         slot, data, className, members, i + 1)

\* assignSlotWithTracking of the repair-loop generator: the class cell, the
\* cell of every member that has a grid, and the period number of the slot
\* added to the subject's used periods
TrackedAssign(st, slot, data, className) ==
  IF className \notin DOMAIN st.ct THEN st
  ELSE LET written ==
             TeacherCellsFrom(
               WriteClassCell(st, slot.day, slot.period, className,
                              data.subject, data.staff),
               slot, data, className, parseStaffMembers(data.staff), 1)
           key == SubjectKeyOf(data)
       IN [written EXCEPT !.usage =
             [k \in (DOMAIN written.usage) \cup {key} |->
                IF k = key THEN UsedPeriods(written, key) \cup {slot.period + 1}
                ELSE written.usage[k]]]

\* the regular branch of allocateSubjectCompletely: the strict search, else
\* the relaxed one, else give up; the workload goes to the primary staff
RECURSIVE RegularLoop(_, _, _, _, _)
RegularLoop(st, settings, prefs, data, className) ==
  IF getRemainingPeriods(st, data) <= 0 THEN st
  ELSE LET slot == findBestSlotWithAntiRepetition(st, settings, prefs, data, className)
           relaxedSlot == findSlotWithRelaxedConstraints(st, settings, data, className)
           taken == IF slot # NoSlot THEN slot ELSE relaxedSlot
       IN IF taken = NoSlot THEN st
          ELSE RegularLoop(
                 AddWorkload(
                   IncAllocated(TrackedAssign(st, taken, data, className), data),
                   PrimaryStaffOf(data), 1),
                 settings, prefs, data, className)

\* allocateGamesPeriods of the repair-loop generator: the last period of
\* each day in turn
RECURSIVE GamesFromDay(_, _, _, _, _)
GamesFromDay(st, settings, data, className, day) ==
  IF day >= NumDays \/ getRemainingPeriods(st, data) <= 0 THEN st
  ELSE LET lastPeriod == TotalPeriods(settings) - 1
           staffMembers == parseStaffMembers(data.staff)
       IN IF isSlotAvailableForAllStaff(st, day, lastPeriod, className, staffMembers)
            THEN GamesFromDay(
                   LabWorkloadFrom(
                     IncAllocated(
                       TrackedAssign(st, [day |-> day, period |-> lastPeriod],
                                     data, className),
                       data),
                     staffMembers, 1, 1),
                   settings, data, className, day + 1)
            ELSE GamesFromDay(st, settings, data, className, day + 1)

\* allocateLibraryPeriods of the repair-loop generator: the first teaching
\* slot at which the library and every staff member are free
RECURSIVE LibraryLoop(_, _, _, _)
LibraryLoop(st, settings, data, className) ==
  IF getRemainingPeriods(st, data) <= 0 THEN st
  ELSE LET slots == DayMajorSlots(settings)
           staffMembers == parseStaffMembers(data.staff)
           free == { i \in 1..Len(slots) :
                       /\ <<slots[i].day, slots[i].period>> \notin DOMAIN st.lib
                       /\ isSlotAvailableForAllStaff(st, slots[i].day, slots[i].period,
                                                     className, staffMembers) }
           at == CHOOSE i \in free : \A j \in free : i <= j
       IN IF free = {} THEN st
          ELSE LibraryLoop(
                 LabWorkloadFrom(
                   IncAllocated(
                     [TrackedAssign(st, slots[at], data, className)
                        EXCEPT !.lib =
                          [k \in (DOMAIN st.lib) \cup {<<slots[at].day, slots[at].period>>} |->
                             IF k = <<slots[at].day, slots[at].period>>
                               THEN className ELSE st.lib[k]]],
                     data),
                   staffMembers, 1, 1),
                 settings, data, className)

\* which allocator allocateSubjectCompletely hands the row to
AllocatorOf(st, data) ==
  IF isLabSubject(data.subject) /\ getRemainingPeriods(st, data) > 1 THEN "lab"
  ELSE IF isGamesSubject(data.subject) THEN "games"
  ELSE IF isLibrarySubject(data.subject) THEN "library"
  ELSE "regular"

\* allocateSubjectCompletely, for the rows that do not go to the lab allocator
allocateSubjectCompletely(st, settings, prefs, data) ==
  IF SubjectKeyOf(data) \notin DOMAIN st.alloc THEN st
  ELSE CASE AllocatorOf(st, data) = "games" ->
              GamesFromDay(st, settings, data, ClassNameOf(data), 0)
         [] AllocatorOf(st, data) = "library" ->
              LibraryLoop(st, settings, data, ClassNameOf(data))
         [] AllocatorOf(st, data) = "regular" ->
              RegularLoop(st, settings, prefs, data, ClassNameOf(data))


-----------------------------------------------------------------------------
(* The repair-loop generator: state machine *)

RepairHeap ==
  [ct |-> classTimetables, tt |-> teacherTimetables,
   alloc |-> subjectAllocations, wl |-> teacherWorkload,
   usage |-> subjectPeriodUsage, lib |-> libraryOccupancy]

SetRepairHeap(st) ==
  /\ classTimetables' = st.ct
  /\ teacherTimetables' = st.tt
  /\ subjectAllocations' = st.alloc
  /\ teacherWorkload' = st.wl
  /\ subjectPeriodUsage' = st.usage
  /\ libraryOccupancy' = st.lib

\* the state the repair-loop generator's constructor leaves
InitRepair ==
  /\ subjectData \in RepairRowLists
  /\ teacherPreferences \in RepairPreferenceChoices
  /\ scheduleSettings \in SettingsChoices
  /\ LET st == initializeDataStructures(subjectData, scheduleSettings) IN
       /\ classTimetables = st.ct
       /\ teacherTimetables = st.tt
       /\ subjectAllocations = st.alloc
       /\ teacherWorkload = st.wl
       /\ subjectPeriodUsage = st.usage
       /\ libraryOccupancy = st.lib
  /\ pc = "constructed"
  /\ attempt = 0
  /\ sortedSubjects = <<>>
  /\ nextRow = 0
  /\ bestScore = 0
  /\ best = BestAlias
  /\ returned = NothingReturned
  /\ csvContent = <<>>
  /\ parsed = NotParsed

\* the fields only the best-of-N generator has
bestOfNFields == <<bestScore, best>>

\* generateTimetables, up to the loop
RepairGenerate ==
  /\ pc = "constructed"
  /\ SetRepairHeap(RepairResetAllocations(RepairHeap, subjectData, scheduleSettings))
  /\ attempt' = 0
  /\ pc' = "while"
  /\ UNCHANGED <<inputs, csvFields, bestOfNFields, sortedSubjects, nextRow, returned>>

\* the loop test holds: the rows are sorted for one more pass
BeginPass ==
  /\ pc = "while"
  /\ attempt < RepairMaxAttempts
  /\ ~isAllocationComplete(subjectAllocations)
  /\ sortedSubjects' = getSortedSubjects(subjectData, RepairHeap)
  /\ nextRow' = 1
  /\ pc' = "pass"
  /\ UNCHANGED <<inputs, csvFields, bestOfNFields, repairFields, classTimetables, teacherTimetables,
                 subjectAllocations, teacherWorkload, attempt, returned>>

\* one iteration of for (const subjectData of sortedSubjects)
AllocateSubject ==
  /\ pc = "pass"
  /\ nextRow <= Len(sortedSubjects)
  /\ AllocatorOf(RepairHeap, sortedSubjects[nextRow]) # "lab"
  /\ SetRepairHeap(allocateSubjectCompletely(RepairHeap, scheduleSettings,
                                             teacherPreferences, sortedSubjects[nextRow]))
  /\ nextRow' = nextRow + 1
  /\ UNCHANGED <<inputs, csvFields, bestOfNFields, pc, attempt, sortedSubjects, returned>>

\* attempt++ after the last row of the pass
EndPass ==
  /\ pc = "pass"
  /\ nextRow > Len(sortedSubjects)
  /\ attempt' = attempt + 1
  /\ pc' = "while"
  /\ UNCHANGED <<inputs, csvFields, bestOfNFields, repairFields, classTimetables, teacherTimetables,
                 subjectAllocations, teacherWorkload, sortedSubjects, nextRow, returned>>

\* the loop test fails: the grids are returned as they are
ReturnTimetables ==
  /\ pc = "while"
  /\ attempt >= RepairMaxAttempts \/ isAllocationComplete(subjectAllocations)
  /\ returned' = [classTimetables |-> classTimetables,
                  teacherTimetables |-> teacherTimetables]
  /\ pc' = "done"
  /\ UNCHANGED <<inputs, csvFields, bestOfNFields, repairFields, classTimetables, teacherTimetables,
                 subjectAllocations, teacherWorkload, attempt, sortedSubjects, nextRow>>

NextRepair ==
  \/ RepairGenerate
  \/ BeginPass
  \/ AllocateSubject
  \/ EndPass
  \/ ReturnTimetables

SpecRepair == InitRepair /\ [][NextRepair]_vars

-----------------------------------------------------------------------------
(* parseCSV (src/src/utils/csvParser.ts, lines 3-74).  The text is held as *)
(* its lines, the header first, and a line as the cells between its commas, *)
(* already trimmed; header cells are already lower-cased.                   *)

RequiredColumns == <<"department", "year", "section", "subject", "periods", "staff">>

CsvHeaders ==
  { RequiredColumns,
    <<"department", "year", "section", "subject", "periods">>,
    <<"department", "year", "section", "subject", "periods", "staff", "preferredday">> }

\* data lines: two sound ones, one with a cell too few, one whose staff cell
\* holds a comma, and lines with an unusable periods cell or a blank field
CsvLines ==
  { <<"CS", "2", "A", "Mathematics", "5", "Dr. A">>,
    <<"EEE", "1", "B", "English", "7", "Dr. B">>,
    <<"CS", "2", "A", "English", "7">>,
    <<"CS", "2", "A", "Mathematics", "5", "Dr. A", "Dr. B">>,
    <<"CS", "2", "A", "Mathematics", "0", "Dr. A">>,
    <<"CS", "2", "A", "Mathematics", "-2", "Dr. A">>,
    <<"CS", "2", "A", "Mathematics", "abc", "Dr. A">>,
    <<"CS", "2", "A", "Mathematics", "3x", "Dr. A">>,
    <<"CS", "2", "A", "Mathematics", "", "Dr. A">>,
    <<"CS", "2", "A", "Mathematics", "5", "">>,
    <<"CS", "2", "A", "", "5", "Dr. A">> }

MaxCsvRows == 2

CsvChoices ==
  { <<h>> \o rows : h \in CsvHeaders,
                    rows \in UNION { [1..n -> CsvLines] : n \in 0..MaxCsvRows } }

\* parseInt of the cells the inputs use: leading digits count, the rest is dropped
parseInt(cell) ==
  CASE cell = "5" -> [isNaN |-> FALSE, value |-> 5]
    [] cell = "7" -> [isNaN |-> FALSE, value |-> 7]
    [] cell = "0" -> [isNaN |-> FALSE, value |-> 0]
    [] cell = "-2" -> [isNaN |-> FALSE, value |-> -2]
    [] cell = "3x" -> [isNaN |-> FALSE, value |-> 3]
    [] OTHER -> [isNaN |-> TRUE, value |-> 0]

\* rowData[name] after headers.forEach: the cell under the last header of
\* that name, the blank string when there is no such header
FieldOf(headers, values, name) ==
  LET at == { i \in 1..Len(headers) : headers[i] = name } IN
  IF at = {} THEN ""
  ELSE values[CHOOSE i \in at : \A j \in at : i >= j]

\* a || b on two cells
OrElse(a, b) == IF a # "" THEN a ELSE b

\* the SubjectData built from one line
RowOf(headers, values) ==
  [ department |-> FieldOf(headers, values, "department"),
    year |-> FieldOf(headers, values, "year"),
    section |-> FieldOf(headers, values, "section"),
    subject |-> FieldOf(headers, values, "subject"),
    periods |-> parseInt(FieldOf(headers, values, "periods")).value,
    staff |-> FieldOf(headers, values, "staff"),
    preferredDay |-> OrElse(FieldOf(headers, values, "preferredday"),
                            FieldOf(headers, values, "preferred_day")),
    preferredSlots |-> OrElse(FieldOf(headers, values, "preferredslots"),
                              FieldOf(headers, values, "preferred_slots")) ]

Thrown(message) == [error |-> message, data |-> <<>>, called |-> TRUE]

\* the loop over the data lines, from line i on
RECURSIVE ParseRows(_, _, _, _)
ParseRows(lines, headers, i, data) ==
  IF i > Len(lines)
    THEN (IF Len(data) = 0 THEN Thrown("No valid data rows found in CSV file")
          ELSE [error |-> "", data |-> data, called |-> TRUE])
  ELSE IF Len(lines[i]) # Len(headers)
    THEN ParseRows(lines, headers, i + 1, data)
  ELSE IF \/ parseInt(FieldOf(headers, lines[i], "periods")).isNaN
          \/ parseInt(FieldOf(headers, lines[i], "periods")).value <= 0
    THEN Thrown("Error in row: Invalid periods value")
  ELSE IF \E f \in {"department", "year", "section", "subject", "staff"} :
            RowOf(headers, lines[i])[f] = ""
    THEN Thrown("Error in row: Missing required field values")
  ELSE ParseRows(lines, headers, i + 1, Append(data, RowOf(headers, lines[i])))

parseCSV(lines) ==
  IF Len(lines) < 2
    THEN Thrown("CSV file must contain at least a header row and one data row")
  ELSE IF \E c \in Range(RequiredColumns) : c \notin Range(lines[1])
    THEN Thrown("Missing required columns")
  ELSE ParseRows(lines, lines[1], 2, <<>>)

\* no generator exists while the file is read
InitParse ==
  /\ csvContent \in CsvChoices
  /\ parsed = NotParsed
  /\ pc = "upload"
  /\ subjectData = <<>>
  /\ teacherPreferences = {}
  /\ scheduleSettings = CHOOSE s \in SettingsChoices : s.totalPeriodsPerDay = 8
  /\ classTimetables = <<>>
  /\ teacherTimetables = <<>>
  /\ subjectAllocations = <<>>
  /\ teacherWorkload = <<>>
  /\ attempt = 0
  /\ sortedSubjects = <<>>
  /\ nextRow = 0
  /\ bestScore = 0
  /\ best = BestAlias
  /\ returned = NothingReturned
  /\ subjectPeriodUsage = <<>>
  /\ libraryOccupancy = <<>>

ParseCSV ==
  /\ pc = "upload"
  /\ parsed' = parseCSV(csvContent)
  /\ pc' = "parsed"
  /\ UNCHANGED <<inputs, repairFields, bestOfNFields, csvContent, classTimetables,
                 teacherTimetables, subjectAllocations, teacherWorkload, attempt,
                 sortedSubjects, nextRow, returned>>

NextParse == ParseCSV

SpecParse == InitParse /\ [][NextParse]_vars

-----------------------------------------------------------------------------
(* Vocabulary of the properties *)

Occupied(cell) == cell.subject # Undefined

StaffOfCell(cell) == Range(parseStaffMembers(cell.staff))

AllocationStep == pc = "allocate" /\ pc' = "allocate"

\* the (day, period) cells of class c holding subject s
CellsOf(ct, c, s) ==
  { dp \in Days \X PeriodIdx(scheduleSettings) : ct[c][dp[1]][dp[2]].subject = s }

\* number of occupied cells of a grid
Load(grid) ==
  Cardinality({ dp \in Days \X PeriodIdx(scheduleSettings) :
                  Occupied(grid[dp[1]][dp[2]]) })

MinOf(S) == CHOOSE x \in S : \A y \in S : x <= y

MaxOf(S) == CHOOSE x \in S : \A y \in S : x >= y

LunchIdx == scheduleSettings.lunchPeriod - 1

BreakIdx == { b - 1 : b \in scheduleSettings.breakPeriods }

LabRows ==
  { i \in 1..Len(subjectData) :
      /\ isLabSubject(subjectData[i].subject)
      /\ subjectAllocations[SubjectKeyOf(subjectData[i])].requiredPeriods > 1 }

-----------------------------------------------------------------------------
(* C1: no double-booking.  In every grid family the program holds or        *)
(* returns, no individual teacher is named by the cells of two classes at   *)
(* the same (day, period), and a step writes a subject into a class cell or *)
(* a teacher cell only if that cell, and the teacher cells of every staff   *)
(* member of the written row, were empty before the step.                   *)

AtMostOneClassPerTeacher(ct) ==
  \A d \in Days : \A p \in PeriodIdx(scheduleSettings) :
    \A c1 \in DOMAIN ct : \A c2 \in DOMAIN ct :
      ( /\ c1 # c2
        /\ Occupied(ct[c1][d][p])
        /\ Occupied(ct[c2][d][p]) )
      => StaffOfCell(ct[c1][d][p]) \cap StaffOfCell(ct[c2][d][p]) = {}

WrittenOnlyIntoEmptyCells ==
  /\ \A c \in DOMAIN classTimetables : \A d \in Days :
       \A p \in PeriodIdx(scheduleSettings) :
         ( /\ classTimetables'[c][d][p] # classTimetables[c][d][p]
           /\ Occupied(classTimetables'[c][d][p]) )
         => /\ ~Occupied(classTimetables[c][d][p])
            /\ \A t \in StaffOfCell(classTimetables'[c][d][p]) :
                 ~Occupied(teacherTimetables[t][d][p])
  /\ \A t \in DOMAIN teacherTimetables : \A d \in Days :
       \A p \in PeriodIdx(scheduleSettings) :
         ( /\ teacherTimetables'[t][d][p] # teacherTimetables[t][d][p]
           /\ Occupied(teacherTimetables'[t][d][p]) )
         => ~Occupied(teacherTimetables[t][d][p])

C1_NoDoubleBooking ==
  [][ /\ AtMostOneClassPerTeacher(classTimetables')
      /\ (pc' = "done" => AtMostOneClassPerTeacher(returned'.classTimetables))
      /\ WrittenOnlyIntoEmptyCells ]_vars

\* a teacher shared by two classes: a slot the teacher holds for one class
\* was left empty in the other class, which got the teacher elsewhere
C1_Witness ==
  /\ pc = "done"
  /\ \E t \in DOMAIN teacherTimetables :
       \E c1 \in DOMAIN classTimetables : \E c2 \in DOMAIN classTimetables :
         /\ c1 # c2
         /\ \E d \in Days : \E p \in PeriodIdx(scheduleSettings) :
              /\ teacherTimetables[t][d][p].className = c1
              /\ ~Occupied(classTimetables[c2][d][p])
         /\ \E d \in Days : \E p \in PeriodIdx(scheduleSettings) :
              teacherTimetables[t][d][p].className = c2

-----------------------------------------------------------------------------
(* C2: mirrored writes.  In every state, and in the returned grids, an      *)
(* occupied class cell of class c has, for each of its staff members, the   *)
(* teacher cell at the same (day, period) holding the same subject and      *)
(* class c; and an occupied teacher cell of teacher t names a class whose   *)
(* cell at the same (day, period) holds the same subject with t among its   *)
(* staff.                                                                   *)

Mirrored(ct, tt) ==
  /\ \A c \in DOMAIN ct : \A d \in Days : \A p \in PeriodIdx(scheduleSettings) :
       Occupied(ct[c][d][p]) =>
         \A t \in StaffOfCell(ct[c][d][p]) :
           /\ t \in DOMAIN tt
           /\ tt[t][d][p].subject = ct[c][d][p].subject
           /\ tt[t][d][p].className = c
  /\ \A t \in DOMAIN tt : \A d \in Days : \A p \in PeriodIdx(scheduleSettings) :
       Occupied(tt[t][d][p]) =>
         /\ tt[t][d][p].className \in DOMAIN ct
         /\ ct[tt[t][d][p].className][d][p].subject = tt[t][d][p].subject
         /\ t \in StaffOfCell(ct[tt[t][d][p].className][d][p])

C2_MirroredWrites ==
  /\ Mirrored(classTimetables, teacherTimetables)
  /\ pc = "done" => Mirrored(returned.classTimetables, returned.teacherTimetables)

\* a returned class cell taught by two staff members
C2_Witness ==
  /\ pc = "done"
  /\ \E c \in DOMAIN returned.classTimetables :
       \E d \in Days : \E p \in PeriodIdx(scheduleSettings) :
         /\ Occupied(returned.classTimetables[c][d][p])
         /\ Cardinality(StaffOfCell(returned.classTimetables[c][d][p])) = 2

-----------------------------------------------------------------------------
(* C3: lab single-day rule.  In every state, a lab row that requires more   *)
(* than one period has either no cell in its class grid and                 *)
(* allocatedPeriods = 0, or exactly requiredPeriods cells, all on one day,  *)
(* at consecutive period indices, and allocatedPeriods = requiredPeriods.   *)

LabAllOrNothing(i) ==
  LET data == subjectData[i]
      entry == subjectAllocations[SubjectKeyOf(data)]
      cells == CellsOf(classTimetables, ClassNameOf(data), data.subject)
      periods == { dp[2] : dp \in cells }
  IN \/ cells = {} /\ entry.allocatedPeriods = 0
     \/ /\ Cardinality(cells) = entry.requiredPeriods
        /\ entry.allocatedPeriods = entry.requiredPeriods
        /\ Cardinality({ dp[1] : dp \in cells }) = 1
        /\ MaxOf(periods) - MinOf(periods) + 1 = Cardinality(periods)

C3_LabSingleDay == \A i \in LabRows : LabAllOrNothing(i)

\* an attempt has ended with one lab placed whole and another left unplaced
C3_Witness ==
  /\ pc = "allocate"
  /\ nextRow > Len(sortedSubjects)
  /\ \E i \in LabRows : \E j \in LabRows :
       /\ subjectAllocations[SubjectKeyOf(subjectData[i])].allocatedPeriods
            = subjectAllocations[SubjectKeyOf(subjectData[i])].requiredPeriods
       /\ subjectAllocations[SubjectKeyOf(subjectData[j])].allocatedPeriods = 0


-----------------------------------------------------------------------------
(* C4: weekly cap.  In every state, and in the returned teacher grids, the  *)
(* number of occupied cells of every individual teacher is at most          *)
(* maxTeacherPeriodsPerWeek.                                                *)

C4_WeeklyCap ==
  /\ \A t \in DOMAIN teacherTimetables :
       Load(teacherTimetables[t]) <= scheduleSettings.maxTeacherPeriodsPerWeek
  /\ pc = "done" =>
       \A t \in DOMAIN returned.teacherTimetables :
         Load(returned.teacherTimetables[t]) <= scheduleSettings.maxTeacherPeriodsPerWeek

-----------------------------------------------------------------------------
(* C5: one lab per day.  In every state, the cells of one class on one day  *)
(* hold at most one distinct lab subject.                                   *)

LabsOnDay(ct, c, d) ==
  { ct[c][d][p].subject : p \in PeriodIdx(scheduleSettings) } \cap LabNames

C5_OneLabPerDay ==
  \A c \in DOMAIN classTimetables : \A d \in Days :
    Cardinality(LabsOnDay(classTimetables, c, d)) <= 1

\* one class holds two different labs, necessarily on two days
C5_Witness ==
  \E c \in DOMAIN classTimetables : \E d1 \in Days : \E d2 \in Days :
    /\ LabsOnDay(classTimetables, c, d1) # {}
    /\ LabsOnDay(classTimetables, c, d2) # {}
    /\ LabsOnDay(classTimetables, c, d1) # LabsOnDay(classTimetables, c, d2)

-----------------------------------------------------------------------------
(* C6: lunch and break exclusion.  In every state, and in the returned      *)
(* grids, the lunch-period cell of every class and teacher grid is empty on *)
(* every day, and a break-period cell never holds a non-lab subject.        *)

LunchAndBreaksKept(grids) ==
  \A g \in DOMAIN grids : \A d \in Days : \A p \in PeriodIdx(scheduleSettings) :
    /\ p = LunchIdx => ~Occupied(grids[g][d][p])
    /\ (p \in BreakIdx /\ Occupied(grids[g][d][p])) =>
         isLabSubject(grids[g][d][p].subject)

C6_LunchBreakExclusion ==
  /\ LunchAndBreaksKept(classTimetables)
  /\ LunchAndBreaksKept(teacherTimetables)
  /\ pc = "done" => /\ LunchAndBreaksKept(returned.classTimetables)
                    /\ LunchAndBreaksKept(returned.teacherTimetables)

\* a library, games or regular subject got all of its six periods in a week
\* whose days have a lunch and a break period
C6_Witness ==
  /\ pc = "done"
  /\ scheduleSettings.breakPeriods # {}
  /\ \E i \in 1..Len(subjectData) :
       /\ ~isLabSubject(subjectData[i].subject)
       /\ Cardinality(CellsOf(returned.classTimetables, ClassNameOf(subjectData[i]),
                              subjectData[i].subject)) = 6


-----------------------------------------------------------------------------
(* C7: lab contiguity.  For a placed lab row that requires more than one    *)
(* period, with lo and hi the least and greatest period index of its cells  *)
(* on its day:                                                              *)
(*   as claimed  - the number of periods in lo..hi minus the break periods  *)
(*                 inside lo..hi equals the number of cells, and lunch is   *)
(*                 not in lo..hi;                                           *)
(*   as amended  - every period of lo..hi, break periods included, is a     *)
(*                 cell of the lab, so the number of periods in lo..hi      *)
(*                 equals the number of cells, and lunch is not in lo..hi.  *)

LabPeriods(i) ==
  { dp[2] : dp \in CellsOf(classTimetables, ClassNameOf(subjectData[i]),
                           subjectData[i].subject) }

LabSpan(i) == MinOf(LabPeriods(i)) .. MaxOf(LabPeriods(i))

-----------------------------------------------------------------------------
(* C8: library exclusivity.  In every state, at every (day, period) at most *)
(* one class holds a library subject.                                       *)

C8_LibraryExclusive ==
  \A d \in Days : \A p \in PeriodIdx(scheduleSettings) :
    Cardinality({ c \in DOMAIN classTimetables :
                    isLibrarySubject(classTimetables[c][d][p].subject) }) <= 1

-----------------------------------------------------------------------------
(* C9: no over-allocation.  In every state every ledger entry has           *)
(* 0 <= allocatedPeriods <= requiredPeriods, and the sum of allocatedPeriods *)
(* is at most the sum of requiredPeriods.                                   *)

RECURSIVE SumOver(_, _, _)
SumOver(alloc, keys, field) ==
  IF keys = {} THEN 0
  ELSE LET k == CHOOSE x \in keys : TRUE IN
       alloc[k][field] + SumOver(alloc, keys \ {k}, field)

C9_NoOverAllocation ==
  /\ \A k \in DOMAIN subjectAllocations :
       /\ 0 <= subjectAllocations[k].allocatedPeriods
       /\ subjectAllocations[k].allocatedPeriods <= subjectAllocations[k].requiredPeriods
  /\ SumOver(subjectAllocations, DOMAIN subjectAllocations, "allocatedPeriods")
       <= SumOver(subjectAllocations, DOMAIN subjectAllocations, "requiredPeriods")

\* an attempt has ended with one entry complete and another one short although
\* free slots remain in its class grid
C9_Witness ==
  /\ pc = "allocate"
  /\ nextRow > Len(sortedSubjects)
  /\ \E i \in 1..Len(subjectData) : \E j \in 1..Len(subjectData) :
       LET a == subjectAllocations[SubjectKeyOf(subjectData[i])]
           b == subjectAllocations[SubjectKeyOf(subjectData[j])]
       IN /\ ~isLabSubject(subjectData[i].subject)
          /\ ~isLabSubject(subjectData[j].subject)
          /\ a.allocatedPeriods = a.requiredPeriods
          /\ 0 < b.allocatedPeriods
          /\ b.allocatedPeriods < b.requiredPeriods


-----------------------------------------------------------------------------
(* C10: games placement bias.  For a step that runs allocateGamesPeriods,   *)
(* with the cells it fills in the class grid:                               *)
(*   as claimed  - the number of cells it fills at the last period of the   *)
(*                 day is the smaller of the number of cells it fills and   *)
(*                 the number of days whose last period was available       *)
(*                 before the step; in a 7-period week with nothing booked  *)
(*                 yet, two periods land on period 7 of two days;           *)
(*   as amended  - the number of cells it fills at period indices from      *)
(*                 floor(0.6 * totalPeriodsPerDay) on is the smaller of the *)
(*                 number of cells it fills and the number of teaching      *)
(*                 slots of that range available before the step, and they  *)
(*                 are the first such slots, lowest period first and        *)
(*                 Monday first; in a 7-period week (lunch 4, breaks 2 and  *)
(*                 6) with nothing booked yet, two periods land on period 5 *)
(*                 of Monday and Tuesday.                                   *)

GamesDispatch ==
  /\ Dispatching
  /\ ~isLabSubject(CurrentRow.subject)
  /\ ~isLibrarySubject(CurrentRow.subject)
  /\ isGamesSubject(CurrentRow.subject)

GamesClass == ClassNameOf(CurrentRow)

\* the cells the step fills in the class grid of the dispatched row
FilledCells ==
  { dp \in Days \X PeriodIdx(scheduleSettings) :
      classTimetables'[GamesClass][dp[1]][dp[2]]
        # classTimetables[GamesClass][dp[1]][dp[2]] }

AvailableBefore(d, p) ==
  /\ ~IsLunchOrBreak(scheduleSettings, p)
  /\ isSlotAvailable(Heap, scheduleSettings, d, p, GamesClass, CurrentRow.staff)

LastIdx == TotalPeriods(scheduleSettings) - 1

Smaller(a, b) == IF a <= b THEN a ELSE b

\* nothing is booked yet for the class of the row nor for any of its staff
OtherwiseEmptyGrid ==
  /\ Load(classTimetables[GamesClass]) = 0
  /\ \A t \in Range(parseStaffMembers(CurrentRow.staff)) :
       Load(teacherTimetables[t]) = 0

TwoPeriodsInEmptyWeekOfSeven ==
  /\ TotalPeriods(scheduleSettings) = 7
  /\ OtherwiseEmptyGrid
  /\ getRemainingPeriods(Heap, CurrentRow) = 2

LateAvailableBefore ==
  { dp \in Days \X PeriodIdx(scheduleSettings) :
      dp[2] >= GamesStart(scheduleSettings) /\ AvailableBefore(dp[1], dp[2]) }

\* the order of the first loop nest: lower period first, then lower day
EarlierInLateScan(a, b) ==
  \/ a[2] < b[2]
  \/ a[2] = b[2] /\ a[1] < b[1]

-----------------------------------------------------------------------------
(* C11: anti-repetition of a regular subject.  For a step that runs         *)
(* allocateRegularPeriods, with the cells it fills in the class grid:       *)
(*   as claimed  - two cells of the subject on different days share a       *)
(*                 period-of-day only if no slot that was available before  *)
(*                 the step has a period-of-day the subject does not use;   *)
(*                 a lone 5-period row, without preferences, in a week with *)
(*                 at least 5 teaching periods a day and a weekly cap of at *)
(*                 least 5 gets five cells on five different                *)
(*                 periods-of-day;                                          *)
(*   as amended  - two cells of the subject share a day only if no slot     *)
(*                 that was available before the step lies on a day the     *)
(*                 subject does not use; the lone 5-period row gets five    *)
(*                 cells on five different days, Monday to Friday, all at   *)
(*                 the first teaching period of the day.                    *)

RegularDispatch ==
  /\ Dispatching
  /\ ~isLabSubject(CurrentRow.subject)
  /\ ~isLibrarySubject(CurrentRow.subject)
  /\ ~isGamesSubject(CurrentRow.subject)

\* the cells of the dispatched row's subject after the step
CellsAfter == CellsOf(classTimetables', ClassNameOf(CurrentRow), CurrentRow.subject)

TeachingIdx == { p \in PeriodIdx(scheduleSettings) : ~IsLunchOrBreak(scheduleSettings, p) }

LoneFivePeriodRow ==
  /\ Len(subjectData) = 1
  /\ teacherPreferences = {}
  /\ getRemainingPeriods(Heap, CurrentRow) = 5
  /\ Cardinality(TeachingIdx) >= 5
  /\ scheduleSettings.maxTeacherPeriodsPerWeek >= 5

C11_WitnessSharedDay ==
  /\ pc = "done"
  /\ \E i \in 1..Len(subjectData) :
       /\ subjectData[i].subject \in RegularNames
       /\ \E a, b \in CellsOf(returned.classTimetables, ClassNameOf(subjectData[i]),
                               subjectData[i].subject) :
            a[1] = b[1] /\ a[2] # b[2]

-----------------------------------------------------------------------------
(* C12: best-of-N retention.  The best score never decreases and, after an  *)
(* attempt is scored, is at least that attempt's score; an attempt that     *)
(* raises it has its grids stored as the best grids.  At the return of      *)
(* generateTimetables the ledger left in the generator scores exactly the   *)
(* best score, the class grid left in the generator holds for every row as  *)
(* many cells as the ledger counts, the teacher grids mirror the class      *)
(* grids, and the returned grids are the grids left in the generator.       *)

CellsMatchLedger(ct, alloc) ==
  \A i \in 1..Len(subjectData) :
    Cardinality(CellsOf(ct, ClassNameOf(subjectData[i]), subjectData[i].subject))
      = alloc[SubjectKeyOf(subjectData[i])].allocatedPeriods

C12_BestAttemptRetained ==
  [][ /\ (pc = "allocate" /\ pc' # "allocate") =>
           /\ bestScore' >= calculateAllocationScore(subjectAllocations)
           /\ bestScore' >= bestScore
           /\ bestScore' > bestScore =>
                /\ bestClassTimetables' = classTimetables
                /\ bestTeacherTimetables' = teacherTimetables
      /\ (pc = "restore" /\ pc' = "done") =>
           /\ calculateAllocationScore(subjectAllocations') = bestScore
           /\ CellsMatchLedger(classTimetables', subjectAllocations')
           /\ Mirrored(classTimetables', teacherTimetables')
           /\ returned'.classTimetables = classTimetables'
           /\ returned'.teacherTimetables = teacherTimetables' ]_vars

\* the whole budget was used and the best attempt placed some periods, not all
C12_Witness ==
  /\ pc = "done"
  /\ attempt = maxAttempts
  /\ bestScore > 0
  /\ \E k \in DOMAIN subjectAllocations :
       subjectAllocations[k].allocatedPeriods < subjectAllocations[k].requiredPeriods

-----------------------------------------------------------------------------
(* C13: determinism.  Whenever generateTimetables has returned, on a fresh  *)
(* generator or on one that has already run, the class grids, the teacher   *)
(* grids and the ledger left in the generator, and the returned grids, are  *)
(* those of one allocation pass over a freshly constructed generator for    *)
(* the same rows, preferences and settings.                                 *)

FreshPass ==
  allocateSubjects(
    resetAllocations(initializeAllocations(subjectData, scheduleSettings),
                     scheduleSettings),
    scheduleSettings, subjectData, teacherPreferences)

C13_Determinism ==
  pc = "done" =>
    /\ classTimetables = FreshPass.ct
    /\ teacherTimetables = FreshPass.tt
    /\ subjectAllocations = FreshPass.alloc
    /\ returned.classTimetables = FreshPass.ct
    /\ returned.teacherTimetables = FreshPass.tt

\* a second call is about to return: the result of the first call is at hand
C13_Witness ==
  /\ pc = "restore"
  /\ returned # NothingReturned
  /\ bestScore > 0

-----------------------------------------------------------------------------
(* C14: attempt reset and monotonicity.  The step that starts an attempt    *)
(* leaves every ledger entry with allocatedPeriods = 0, every teacher       *)
(* workload 0 and every class-grid and teacher-grid cell empty; a step      *)
(* inside an attempt never lowers the allocatedPeriods of an entry.         *)

AllClear(st) ==
  /\ \A k \in DOMAIN st.alloc : st.alloc[k].allocatedPeriods = 0
  /\ \A t \in DOMAIN st.wl : st.wl[t] = 0
  /\ \A c \in DOMAIN st.ct : Load(st.ct[c]) = 0
  /\ \A t \in DOMAIN st.tt : Load(st.tt[t]) = 0

C14_ResetAndMonotone ==
  [][ /\ (pc = "loop" /\ pc' = "allocate") => AllClear(Heap')
      /\ (pc = "allocate" /\ pc' = "allocate") =>
           \A k \in DOMAIN subjectAllocations :
             subjectAllocations'[k].allocatedPeriods
               >= subjectAllocations[k].allocatedPeriods ]_vars

\* an attempt starts after an earlier attempt that placed periods
C14_Witness ==
  /\ pc = "allocate"
  /\ nextRow = 1
  /\ attempt >= 1
  /\ bestScore > 0
  /\ AllClear(Heap)

-----------------------------------------------------------------------------
(* C15: early-stop rule.  The step that scores an attempt leaves the loop   *)
(* if and only if every ledger entry of the attempt has                     *)
(* allocatedPeriods = requiredPeriods, or the attempt scores at least 0.95  *)
(* and its index is at least 10; otherwise the loop goes on, and it ends    *)
(* without such a stop only when the 50 attempts have been run.             *)

AllEntriesComplete(alloc) ==
  \A k \in DOMAIN alloc : alloc[k].allocatedPeriods = alloc[k].requiredPeriods

GoodEnoughAfterMinimum ==
  /\ ScoreAtLeast(calculateAllocationScore(subjectAllocations), subjectAllocations,
                  GoodEnoughPercent)
  /\ attempt >= minAttempts

C15_EarlyStopRule ==
  [][ /\ (pc = "allocate" /\ pc' # "allocate") =>
           ( pc' = "restore" <=>
               (AllEntriesComplete(subjectAllocations) \/ GoodEnoughAfterMinimum) )
      /\ (pc = "loop" /\ pc' = "restore") => attempt = maxAttempts ]_vars

-----------------------------------------------------------------------------
(* C16: a shortfall is not an abort.  The step that starts an attempt       *)
(* leaves in sortedSubjects a permutation of the input rows; every step     *)
(* inside the attempt dispatches the next row of that order and moves on by *)
(* exactly one row, changing no ledger entry but that row's, whatever the   *)
(* shortfall of the rows before it; the attempt is scored only after the    *)
(* last row; and the returned value holds a grid for every class and every  *)
(* teacher of the input.                                                    *)

CountOf(seq, x) == Cardinality({ i \in 1..Len(seq) : seq[i] = x })

IsPermutation(a, b) ==
  /\ Len(a) = Len(b)
  /\ \A i \in 1..Len(a) : CountOf(a, a[i]) = CountOf(b, a[i])

C16_ShortfallIsNotAbort ==
  [][ /\ (pc = "loop" /\ pc' = "allocate") =>
           /\ nextRow' = 1
           /\ IsPermutation(sortedSubjects', subjectData)
      /\ (pc = "allocate" /\ pc' = "allocate") =>
           /\ nextRow' = nextRow + 1
           /\ sortedSubjects' = sortedSubjects
           /\ \A k \in DOMAIN subjectAllocations :
                k # SubjectKeyOf(CurrentRow) =>
                  subjectAllocations'[k] = subjectAllocations[k]
      /\ (pc = "allocate" /\ pc' # "allocate") =>
           nextRow = Len(sortedSubjects) + 1
      /\ pc' = "done" =>
           /\ DOMAIN returned'.classTimetables = UniqueClasses(subjectData)
           /\ DOMAIN returned'.teacherTimetables = UniqueTeachers(subjectData)
           /\ \A g \in DOMAIN returned'.classTimetables :
                DOMAIN returned'.classTimetables[g] = Days
           /\ \A g \in DOMAIN returned'.teacherTimetables :
                DOMAIN returned'.teacherTimetables[g] = Days ]_vars

\* the first row of the order ended short and the row after it got periods
C16_Witness ==
  /\ pc = "done"
  /\ Len(sortedSubjects) = 2
  /\ SubjectKeyOf(sortedSubjects[1]) # SubjectKeyOf(sortedSubjects[2])
  /\ getRemainingPeriods(Heap, sortedSubjects[1]) > 0
  /\ subjectAllocations[SubjectKeyOf(sortedSubjects[2])].allocatedPeriods > 0

-----------------------------------------------------------------------------
(* C17: workload tracking.  In every state the workload of every            *)
(* individual teacher equals the number of occupied cells of that teacher's *)
(* grid; a step that places a lab of k periods raises the workload of every *)
(* staff member of the row by exactly k, and a lab step that places nothing *)
(* raises none.                                                             *)

WorkloadIsLoad(wl, tt) ==
  /\ DOMAIN wl = DOMAIN tt
  /\ \A t \in DOMAIN wl : wl[t] = Load(tt[t])

LabDispatch == Dispatching /\ isLabSubject(CurrentRow.subject)

C17_WorkloadTracksCells ==
  [][ /\ WorkloadIsLoad(teacherWorkload, teacherTimetables)
      /\ WorkloadIsLoad(teacherWorkload', teacherTimetables')
      /\ LabDispatch =>
           LET k == getRemainingPeriods(Heap', CurrentRow)
                      - getRemainingPeriods(Heap, CurrentRow)
           IN \A t \in Range(parseStaffMembers(CurrentRow.staff)) :
                teacherWorkload'[t] = teacherWorkload[t] - k ]_vars

\* a lab of two staff members has been placed
C17_Witness ==
  \E c \in DOMAIN classTimetables : \E d \in Days :
    \E p \in PeriodIdx(scheduleSettings) :
      /\ isLabSubject(classTimetables[c][d][p].subject)
      /\ Cardinality(StaffOfCell(classTimetables[c][d][p])) = 2
      /\ \A t \in StaffOfCell(classTimetables[c][d][p]) : teacherWorkload[t] >= 2

-----------------------------------------------------------------------------
(* C18: strict oracle.  In every state of an attempt, for every day,        *)
(* period, class and staff string, isSlotAvailable is true exactly when the *)
(* class has a grid whose cell is empty and every parsed staff member has a *)
(* grid whose cell is empty and a workload below maxTeacherPeriodsPerWeek.  *)
(* Checked for a single teacher and for two teachers with an empty piece    *)
(* between them at every slot of every class, and on Monday also for a      *)
(* class without a grid, a teacher without a grid and the empty string.     *)

OracleClasses == DOMAIN classTimetables \cup {"ME-3-C"}

OracleStaffStrings == { <<"Dr. A">>, <<"Dr. B", "", "Dr. A">> }

OddStaffStrings == { <<"Dr. Z">>, <<"Dr. A", "Dr. Z">>, <<>> }

ExpectedAvailable(d, p, c, staffString) ==
  /\ c \in DOMAIN classTimetables
  /\ ~Occupied(classTimetables[c][d][p])
  /\ \A i \in 1..Len(staffString) :
       staffString[i] # "" =>
         /\ staffString[i] \in DOMAIN teacherTimetables
         /\ ~Occupied(teacherTimetables[staffString[i]][d][p])
         /\ teacherWorkload[staffString[i]] < scheduleSettings.maxTeacherPeriodsPerWeek

OracleAgrees(d, p, c, staffString) ==
  isSlotAvailable(Heap, scheduleSettings, d, p, c, staffString)
    <=> ExpectedAvailable(d, p, c, staffString)

C18_StrictOracle ==
  pc = "allocate" =>
    /\ \A staffString \in OracleStaffStrings : \A c \in DOMAIN classTimetables :
         \A d \in Days : \A p \in PeriodIdx(scheduleSettings) :
           OracleAgrees(d, p, c, staffString)
    /\ \A staffString \in OracleStaffStrings \cup OddStaffStrings :
         \A c \in OracleClasses : \A p \in PeriodIdx(scheduleSettings) :
           OracleAgrees(0, p, c, staffString)

\* a slot is refused for the weekly maximum alone
C18_Witness ==
  \E d \in Days : \E p \in PeriodIdx(scheduleSettings) :
    \E c \in DOMAIN classTimetables : \E t \in DOMAIN teacherTimetables :
      /\ ~Occupied(classTimetables[c][d][p])
      /\ ~Occupied(teacherTimetables[t][d][p])
      /\ teacherWorkload[t] >= scheduleSettings.maxTeacherPeriodsPerWeek
      /\ ~isSlotAvailable(Heap, scheduleSettings, d, p, c, <<t>>)
      /\ pc = "allocate"

-----------------------------------------------------------------------------
(* C19: priority ordering.  During every attempt the order the rows are     *)
(* dispatched in is a permutation of the input rows in which no non-lab row *)
(* stands before a lab row and, among two rows that are both labs or both   *)
(* not, the row standing first has at least as many periods.                *)

C19_PriorityOrder ==
  pc = "allocate" =>
    /\ IsPermutation(sortedSubjects, subjectData)
    /\ \A i \in 1..Len(sortedSubjects) : \A j \in (i + 1)..Len(sortedSubjects) :
         LET a == sortedSubjects[i]
             b == sortedSubjects[j]
         IN /\ ~(~isLabSubject(a.subject) /\ isLabSubject(b.subject))
            /\ (isLabSubject(a.subject) <=> isLabSubject(b.subject))
                 => a.periods >= b.periods

\* the input lists a non-lab row with more periods before a lab row
C19_Witness ==
  /\ pc = "allocate"
  /\ Len(subjectData) = 2
  /\ ~isLabSubject(subjectData[1].subject)
  /\ isLabSubject(subjectData[2].subject)
  /\ subjectData[1].periods > subjectData[2].periods
  /\ sortedSubjects = <<subjectData[2], subjectData[1]>>

-----------------------------------------------------------------------------
(* C20: relaxed-fallback completeness. When allocateSubjectCompletely has  *)
(* handled a regular subject (one that goes neither to the lab, nor to the  *)
(* games, nor to the library allocator), with one or several staff          *)
(* members, and the subject still has fewer allocated than required         *)
(* periods, then no teaching slot is left at which the class cell and the   *)
(* teacher cells of all its staff are free.                                 *)

\* the step is allocateSubjectCompletely taking the regular branch
RegularBranch ==
  /\ pc = "pass"
  /\ nextRow <= Len(sortedSubjects)
  /\ nextRow' = nextRow + 1
  /\ SubjectKeyOf(sortedSubjects[nextRow]) \in DOMAIN subjectAllocations
  /\ AllocatorOf(RepairHeap, sortedSubjects[nextRow]) = "regular"

\* a teaching slot at which the class and every staff member of the row are free
FreeForAll(ct, tt, settings, data) ==
  \E d \in Days : \E p \in PeriodIdx(settings) :
    /\ ~IsLunchOrBreak(settings, p)
    /\ ct[ClassNameOf(data)][d][p].subject = Undefined
    /\ \A t \in Range(parseStaffMembers(data.staff)) : tt[t][d][p].subject = Undefined

LeftShort(alloc, data) ==
  alloc[SubjectKeyOf(data)].allocatedPeriods < alloc[SubjectKeyOf(data)].requiredPeriods

C20_RelaxedCompleteness ==
  [][ RegularBranch =>
        ( LeftShort(subjectAllocations', sortedSubjects[nextRow])
            => ~FreeForAll(classTimetables', teacherTimetables',
                           scheduleSettings, sortedSubjects[nextRow]) ) ]_vars

\* the same statement for the rows whose staff string names one teacher
C20_SingleStaffCompleteness ==
  [][ (RegularBranch /\ Len(sortedSubjects[nextRow].staff) = 1) =>
        ( LeftShort(subjectAllocations', sortedSubjects[nextRow])
            => ~FreeForAll(classTimetables', teacherTimetables',
                           scheduleSettings, sortedSubjects[nextRow]) ) ]_vars

\* a regular subject was placed beyond the weekly cap of its only teacher
C20_RelaxedPlacementSeen ==
  /\ pc = "pass"
  /\ \E i \in 1..Len(sortedSubjects) :
       /\ i < nextRow
       /\ Len(sortedSubjects[i].staff) = 1
       /\ AllocatorOf(RepairHeap, sortedSubjects[i]) = "regular"
       /\ ~LeftShort(subjectAllocations, sortedSubjects[i])
       /\ teacherWorkload[sortedSubjects[i].staff[1]]
            > scheduleSettings.maxTeacherPeriodsPerWeek

-----------------------------------------------------------------------------
(* C21: input validation is surfaced. Whenever parseCSV returns rows, every *)
(* data line of the text had as many cells as the header, a numeric and     *)
(* positive periods cell and a value in every required field, so no line    *)
(* was dropped; and every returned row has periods > 0 and non-empty        *)
(* department, year, section, subject and staff.                            *)

NumericCells == {"5", "7", "0", "-2"}

SoundLine(headers, values) ==
  /\ Len(values) = Len(headers)
  /\ FieldOf(headers, values, "periods") \in NumericCells
  /\ parseInt(FieldOf(headers, values, "periods")).value > 0
  /\ \A f \in {"department", "year", "section", "subject", "staff"} :
       FieldOf(headers, values, f) # ""

RowsReturned == parsed.called /\ parsed.error = ""

ReturnedRowsValid ==
  \A i \in 1..Len(parsed.data) :
    /\ parsed.data[i].periods > 0
    /\ \A f \in {"department", "year", "section", "subject", "staff"} :
         parsed.data[i][f] # ""

C21_ValidationSurfaced ==
  RowsReturned =>
    /\ \A i \in 2..Len(csvContent) : SoundLine(csvContent[1], csvContent[i])
    /\ Len(parsed.data) = Len(csvContent) - 1
    /\ ReturnedRowsValid

\* the part of the statement about the rows that are returned
C21_ReturnedRowsValid == RowsReturned => ReturnedRowsValid

\* a line with a cell too few was left out of the rows returned
C21_LineDropped ==
  /\ RowsReturned
  /\ \E i \in 2..Len(csvContent) : Len(csvContent[i]) < Len(csvContent[1])

-----------------------------------------------------------------------------
(* C22: the lab search is first-fit and complete. A lab that still needs r  *)
(* periods is placed on the lowest-indexed day that has no different lab    *)
(* for the class and holds r consecutive lab-available periods, at the      *)
(* leftmost such run of that day; nothing else changes in the class grid;   *)
(* and the lab is left unplaced only if no day qualifies.                   *)

\* periods start .. start + r - 1 of the day are all lab-available
LabRunAt(st, settings, data, day, start, r) ==
  /\ start + r - 1 < TotalPeriods(settings)
  /\ \A p \in start..(start + r - 1) :
       isLabSlotAvailable(st, settings, day, p, ClassNameOf(data),
                          data.staff, data.subject)

LabRunStarts(st, settings, data, day, r) ==
  { start \in PeriodIdx(settings) : LabRunAt(st, settings, data, day, start, r) }

LabDays(st, settings, data, r) ==
  { d \in Days : /\ ~hasDifferentLabOnDay(st, ClassNameOf(data), d, data.subject)
                 /\ LabRunStarts(st, settings, data, d, r) # {} }

C22_LabFirstFit ==
  [][ (LabDispatch /\ getRemainingPeriods(Heap, CurrentRow) > 0) =>
        LET r == getRemainingPeriods(Heap, CurrentRow)
            c == ClassNameOf(CurrentRow)
            days == LabDays(Heap, scheduleSettings, CurrentRow, r)
            day == MinOf(days)
            start == MinOf(LabRunStarts(Heap, scheduleSettings, CurrentRow, day, r))
        IN IF days = {}
             THEN /\ classTimetables' = classTimetables
                  /\ subjectAllocations' = subjectAllocations
             ELSE /\ getRemainingPeriods(Heap', CurrentRow) = 0
                  /\ \A d \in Days : \A p \in PeriodIdx(scheduleSettings) :
                       IF d = day /\ p \in start..(start + r - 1)
                         THEN classTimetables'[c][d][p].subject = CurrentRow.subject
                         ELSE classTimetables'[c][d][p] = classTimetables[c][d][p]
      ]_vars

\* a lab whose leftmost run begins after the first period of Monday, the
\* earlier periods being taken for its teacher by another class
C22_Witness ==
  /\ pc = "allocate"
  /\ \E c \in DOMAIN classTimetables : \E p \in PeriodIdx(scheduleSettings) :
       /\ p > 0
       /\ isLabSubject(classTimetables[c][0][p].subject)
       /\ classTimetables[c][0][p - 1].subject = Undefined

\* a lab that no day could take
C22_WitnessUnplaced ==
  /\ pc = "allocate"
  /\ nextRow > 1
  /\ isLabSubject(sortedSubjects[nextRow - 1].subject)
  /\ getRemainingPeriods(Heap, sortedSubjects[nextRow - 1]) > 0

-----------------------------------------------------------------------------
(* C23: snapshot isolation of the retained best. Once an attempt has been   *)
(* retained as the best, the retained ledger and the retained grids change  *)
(* only when a later attempt is retained in its place: neither              *)
(* resetAllocations nor the allocations of later attempts change them.      *)

\* a best has been retained and this step retains no new one
BestKept == bestScore > 0 /\ bestScore' = bestScore

C23_SnapshotIsolation ==
  [][ BestKept =>
        /\ bestAllocations' = bestAllocations
        /\ bestClassTimetables' = bestClassTimetables
        /\ bestTeacherTimetables' = bestTeacherTimetables ]_vars

\* the part of the statement about the retained grids
C23_RetainedGridsIsolated ==
  [][ BestKept =>
        /\ bestClassTimetables' = bestClassTimetables
        /\ bestTeacherTimetables' = bestTeacherTimetables ]_vars

\* a later attempt has reset the live grids while a best is retained
C23_ResetAfterRetention ==
  /\ pc = "allocate"
  /\ bestScore > 0
  /\ nextRow = 1
  /\ bestClassTimetables # classTimetables

-----------------------------------------------------------------------------
(* C24: library late-slot preference and completeness. A step that runs     *)
(* allocateLibraryPeriods fills a cell at a period index below              *)
(* floor(0.7 * totalPeriodsPerDay) only if it also fills every teaching     *)
(* slot from that index on that was available before the step, so that      *)
(* none of them is available when the earlier cell is filled; and it leaves *)
(* the subject short only if no teaching slot is available afterwards.      *)

LibraryDispatch ==
  /\ Dispatching
  /\ ~isLabSubject(CurrentRow.subject)
  /\ isLibrarySubject(CurrentRow.subject)

AvailableAfter(d, p) ==
  /\ ~IsLunchOrBreak(scheduleSettings, p)
  /\ isSlotAvailable(Heap', scheduleSettings, d, p, ClassNameOf(CurrentRow),
                     CurrentRow.staff)

C24_LibraryLateFirst ==
  [][ LibraryDispatch =>
        /\ (\E dp \in FilledCells : dp[2] < LibraryStart(scheduleSettings)) =>
             \A d \in Days : \A p \in PeriodIdx(scheduleSettings) :
               (p >= LibraryStart(scheduleSettings) /\ AvailableBefore(d, p))
                 => <<d, p>> \in FilledCells
        /\ getRemainingPeriods(Heap', CurrentRow) > 0 =>
             \A d \in Days : \A p \in PeriodIdx(scheduleSettings) :
               ~AvailableAfter(d, p) ]_vars

\* a library period in the early part of the day
C24_Witness ==
  /\ pc = "allocate"
  /\ \E c \in DOMAIN classTimetables : \E d \in Days :
       \E p \in PeriodIdx(scheduleSettings) :
         /\ p < LibraryStart(scheduleSettings)
         /\ isLibrarySubject(classTimetables[c][d][p].subject)

\* a library subject left short
C24_WitnessShort ==
  /\ pc = "allocate"
  /\ nextRow > 1
  /\ isLibrarySubject(sortedSubjects[nextRow - 1].subject)
  /\ getRemainingPeriods(Heap, sortedSubjects[nextRow - 1]) > 0

-----------------------------------------------------------------------------
(* C25: termination. Every run of generateTimetables reaches its return;    *)
(* it makes at most 50 attempts; an attempt is one reset followed by one    *)
(* allocator call for each input row; and a run whose ledger is complete    *)
(* at the return made exactly one attempt.                                  *)

OneCallPerRow ==
  pc = "allocate" =>
    /\ Len(sortedSubjects) = Len(subjectData)
    /\ nextRow \in 1..(Len(subjectData) + 1)

-----------------------------------------------------------------------------
(* C26: attempts are identical. Every attempt after the first ends with the *)
(* class grids, the teacher grids and the score the first attempt ended     *)
(* with, which are the retained ones; no attempt after the first improves   *)
(* the best score or replaces the retained grids.                           *)

\* allocateSubjects of the current attempt has returned
AttemptEnded == pc = "allocate" /\ nextRow > Len(sortedSubjects)

SameAsFirstAttempt ==
  /\ calculateAllocationScore(subjectAllocations) = bestScore
  /\ IF best.alias
       THEN bestScore = 0
       ELSE /\ classTimetables = best.ct
            /\ teacherTimetables = best.tt

C26_AttemptsIdentical ==
  /\ []((AttemptEnded /\ attempt > 0) => SameAsFirstAttempt)
  /\ [][ (AttemptEnded /\ attempt > 0) =>
           (bestScore' = bestScore /\ best' = best) ]_vars

\* a later attempt has ended and the first attempt had placed something
C26_Witness ==
  /\ AttemptEnded
  /\ attempt > 0
  /\ bestScore > 0
  /\ ~best.alias

-----------------------------------------------------------------------------
(* C27: ledger and grid agree. In every state, so after every allocator     *)
(* call and in the final state, each ledger entry of subject s and class c  *)
(* counts in allocatedPeriods exactly the cells of the class grid of c that *)
(* hold s.                                                                  *)

\* the rows whose subject-class key is k
RowsOfKey(k) == { i \in 1..Len(subjectData) : SubjectKeyOf(subjectData[i]) = k }

C27_LedgerMatchesGrid ==
  \A k \in DOMAIN subjectAllocations :
    \A i \in RowsOfKey(k) :
      subjectAllocations[k].allocatedPeriods =
        Cardinality(CellsOf(classTimetables, ClassNameOf(subjectData[i]),
                            subjectData[i].subject))

\* an allocator has just returned for the second of two rows that share a
\* ledger entry, with cells placed, and a later attempt is running
C27_Witness ==
  /\ pc = "allocate"
  /\ nextRow > Len(sortedSubjects)
  /\ Len(subjectData) = MaxRows
  /\ Cardinality(DOMAIN subjectAllocations) = 1
  /\ subjectData[1].staff # subjectData[2].staff
  /\ \E k \in DOMAIN subjectAllocations : subjectAllocations[k].allocatedPeriods > 0

\* the run has returned with some entry short and some cells placed
C27_WitnessFinal ==
  /\ pc = "done"
  /\ \E k \in DOMAIN subjectAllocations :
       /\ subjectAllocations[k].allocatedPeriods > 0
       /\ subjectAllocations[k].allocatedPeriods < subjectAllocations[k].requiredPeriods

-----------------------------------------------------------------------------
(* C28: same-day spreading of regular subjects. allocateRegularPeriods      *)
(* places a period of its subject on a day on which the class already has   *)
(* the subject only if, at that moment, no available teaching slot exists   *)
(* on a day that does not yet hold the subject; and it returns with a       *)
(* shortfall only if no available teaching slot exists at all.              *)

\* the generator after the first j iterations of the loop of the dispatched call
AfterPlacements(j) ==
  LET remainingPeriods == getRemainingPeriods(Heap, CurrentRow) IN
  IF remainingPeriods <= 0 THEN Heap
  ELSE RegularFrom(Heap, scheduleSettings, CurrentRow, ClassNameOf(CurrentRow),
                   remainingPeriods - j, remainingPeriods)

SubjectCellsIn(st) == CellsOf(st.ct, ClassNameOf(CurrentRow), CurrentRow.subject)

\* the teaching slots the oracle accepts for the dispatched row in st
OpenSlots(st) ==
  { dp \in Days \X TeachingIdx :
      isSlotAvailable(st, scheduleSettings, dp[1], dp[2],
                      ClassNameOf(CurrentRow), CurrentRow.staff) }

DaysHolding(st) == { dp[1] : dp \in SubjectCellsIn(st) }

\* iteration j + 1 put the subject on a day that already held it
RepeatsDay(j) ==
  \E dp \in SubjectCellsIn(AfterPlacements(j + 1)) \ SubjectCellsIn(AfterPlacements(j)) :
    dp[1] \in DaysHolding(AfterPlacements(j))

C28_SameDayOnlyWhenForced ==
  [][ RegularDispatch =>
        /\ classTimetables' = AfterPlacements(getRemainingPeriods(Heap, CurrentRow)).ct
        /\ \A j \in 0..(getRemainingPeriods(Heap, CurrentRow) - 1) :
             RepeatsDay(j) =>
               \A dp \in OpenSlots(AfterPlacements(j)) :
                 dp[1] \in DaysHolding(AfterPlacements(j))
        /\ subjectAllocations'[SubjectKeyOf(CurrentRow)].allocatedPeriods
             < subjectAllocations'[SubjectKeyOf(CurrentRow)].requiredPeriods
           => OpenSlots([Heap EXCEPT !.ct = classTimetables',
                                     !.tt = teacherTimetables',
                                     !.alloc = subjectAllocations',
                                     !.wl = teacherWorkload']) = {} ]_vars

\* a regular row has been given two periods on one day while another row
\* of the run left it fewer free days than it needs
C28_Witness ==
  /\ pc = "allocate"
  /\ Len(subjectData) = MaxRows
  /\ nextRow > Len(sortedSubjects)
  /\ \E i \in 1..Len(subjectData) :
       /\ subjectData[i].subject \in RegularNames
       /\ \E a, b \in CellsOf(classTimetables, ClassNameOf(subjectData[i]),
                               subjectData[i].subject) :
            a[1] = b[1] /\ a[2] # b[2]

\* a regular row has returned short of its required periods
C28_WitnessShort ==
  /\ pc = "allocate"
  /\ nextRow > 1
  /\ sortedSubjects[nextRow - 1].subject \in RegularNames
  /\ getRemainingPeriods(Heap, sortedSubjects[nextRow - 1]) > 0
  /\ subjectAllocations[SubjectKeyOf(sortedSubjects[nextRow - 1])].allocatedPeriods > 0

-----------------------------------------------------------------------------
(* C30: every input row is accounted for in the ledger. The requiredPeriods *)
(* of the ledger add up to the periods of all input rows, and every row has *)
(* a ledger entry requiring its own periods that no other row consumes,     *)
(* also when two rows name the same subject for the same class.             *)

RECURSIVE SumOfRequired(_, _)
SumOfRequired(alloc, keys) ==
  IF keys = {} THEN 0
  ELSE LET k == CHOOSE x \in keys : TRUE IN
       alloc[k].requiredPeriods + SumOfRequired(alloc, keys \ {k})

RECURSIVE SumOfPeriods(_, _)
SumOfPeriods(rows, i) ==
  IF i > Len(rows) THEN 0 ELSE rows[i].periods + SumOfPeriods(rows, i + 1)

\* no two rows of the input share a subject-class key
DistinctKeys ==
  \A i, j \in 1..Len(subjectData) :
    SubjectKeyOf(subjectData[i]) = SubjectKeyOf(subjectData[j]) => i = j

RowsAccounted ==
  /\ SumOfRequired(subjectAllocations, DOMAIN subjectAllocations)
       = SumOfPeriods(subjectData, 1)
  /\ \A i \in 1..Len(subjectData) :
       /\ subjectAllocations[SubjectKeyOf(subjectData[i])].requiredPeriods
            = subjectData[i].periods
       /\ Cardinality(RowsOfKey(SubjectKeyOf(subjectData[i]))) = 1

C30_EveryRowAccounted == RowsAccounted

\* what the ledger does guarantee: rows with distinct keys are all accounted for
C30_DistinctRowsAccounted == DistinctKeys => RowsAccounted

\* two rows with different staff share one ledger entry, and the run has ended
C30_SharedEntry ==
  /\ pc = "done"
  /\ Len(subjectData) = MaxRows
  /\ ~DistinctKeys
  /\ subjectData[1].staff # subjectData[2].staff

-----------------------------------------------------------------------------
(* The fixed-pass generator (lines 782-1462): a repair loop of up to 500    *)
(* passes over all rows, with no reset between the passes.  Its constructor, *)
(* oracle, assign operations and ledger are those of the best-of-N          *)
(* generator; its sort reads TeacherPreference rows, and its lab test,      *)
(* library, games and regular allocators are its own.                       *)

\* let maxAttempts = 500 of the fixed-pass loop
FixedPassMaxAttempts == 500

\* rows of the fixed-pass runs: one class with a teacher or a pair, another
\* class of the same teacher
FixedPassRowChoices ==
  { [department |-> c.department, year |-> c.year, section |-> c.section,
     subject |-> s, periods |-> PeriodsOf(s), staff |-> c.staff] :
       c \in { x \in ClassStaffChoices : x.staff # <<"Dr. B">> },
       s \in {"Physics Lab", "Chemistry Practical", "Library", "Games", "Mathematics"} }

\* resetAllocations of the fixed-pass generator
FixedPassReset(st) ==
  [ ct |-> [c \in DOMAIN st.ct |->
              [d \in DOMAIN st.ct[c] |-> [p \in DOMAIN st.ct[c][d] |-> EmptySlot]]],
    tt |-> [t \in DOMAIN st.tt |->
              [d \in DOMAIN st.tt[t] |-> [p \in DOMAIN st.tt[t][d] |-> EmptySlot]]],
    alloc |-> [k \in DOMAIN st.alloc |->
                 [st.alloc[k] EXCEPT !.allocatedPeriods = 0]],
    wl |-> [t \in DOMAIN st.wl |-> 0] ]

\* teacherPreferences.some(pref => a.staff.includes(pref.teacherName))
FixedPassHasPreference(data, prefs) ==
  \E i \in 1..Len(prefs) : prefs[i].teacherName \in Range(data.staff)

\* the comparator of getSortedSubjects: < 0, 0 or > 0
FixedPassCompare(a, b, prefs, wl) ==
  IF isLabSubject(a.subject) /\ ~isLabSubject(b.subject) THEN -1
  ELSE IF ~isLabSubject(a.subject) /\ isLabSubject(b.subject) THEN 1
  ELSE IF a.periods # b.periods THEN b.periods - a.periods
  ELSE IF FixedPassHasPreference(a, prefs) /\ ~FixedPassHasPreference(b, prefs) THEN -1
  ELSE IF ~FixedPassHasPreference(a, prefs) /\ FixedPassHasPreference(b, prefs) THEN 1
  ELSE IF WorkloadOfString(wl, a.staff) # WorkloadOfString(wl, b.staff)
    THEN WorkloadOfString(wl, a.staff) - WorkloadOfString(wl, b.staff)
  ELSE SubjectRank(a.subject) - SubjectRank(b.subject)

FixedPassInsert(sorted, x, prefs, wl) ==
  LET later == { i \in 1..Len(sorted) : FixedPassCompare(x, sorted[i], prefs, wl) < 0 }
      at == IF later = {} THEN Len(sorted) + 1
            ELSE CHOOSE i \in later : \A j \in later : i <= j
  IN SubSeq(sorted, 1, at - 1) \o <<x>> \o SubSeq(sorted, at, Len(sorted))

RECURSIVE FixedPassSortFrom(_, _, _, _, _)
FixedPassSortFrom(rows, sorted, prefs, wl, i) ==
  IF i > Len(rows) THEN sorted
  ELSE FixedPassSortFrom(rows, FixedPassInsert(sorted, rows[i], prefs, wl),
                         prefs, wl, i + 1)

\* getSortedSubjects of the fixed-pass generator
FixedPassSortedSubjects(rows, prefs, wl) ==
  FixedPassSortFrom(rows, <<>>, prefs, wl, 1)

\* isLabSlotAvailable of the fixed-pass generator: the class cell is free, the
\* day holds no other lab of the class, every member is free and under the cap
FixedPassLabSlotAvailable(st, settings, day, period, className, staffString, subjectName) ==
  /\ className \in DOMAIN st.ct
  /\ st.ct[className][day][period].subject = Undefined
  /\ ~hasDifferentLabOnDay(st, className, day, subjectName)
  /\ \A staff \in Range(parseStaffMembers(staffString)) :
       /\ staff \in DOMAIN st.tt
       /\ st.tt[staff][day][period].subject = Undefined
       /\ (IF staff \in DOMAIN st.wl THEN st.wl[staff] ELSE 0)
            < settings.maxTeacherPeriodsPerWeek

\* the period scan of one day: consecutiveSlots, <<>> when the day has no run
RECURSIVE FixedPassLabScan(_, _, _, _, _, _, _, _)
FixedPassLabScan(st, settings, day, data, className, remainingPeriods, period, currentSequence) ==
  IF period >= TotalPeriods(settings) THEN <<>>
  ELSE IF period + 1 = settings.lunchPeriod
    THEN IF Len(currentSequence) >= remainingPeriods
           THEN currentSequence
           ELSE FixedPassLabScan(st, settings, day, data, className,
                                 remainingPeriods, period + 1, <<>>)
  ELSE IF FixedPassLabSlotAvailable(st, settings, day, period, className,
                                    data.staff, data.subject)
    THEN IF Len(currentSequence) + 1 >= remainingPeriods
           THEN Append(currentSequence, period)
           ELSE FixedPassLabScan(st, settings, day, data, className,
                                 remainingPeriods, period + 1,
                                 Append(currentSequence, period))
  ELSE IF Len(currentSequence) >= remainingPeriods
    THEN currentSequence
    ELSE FixedPassLabScan(st, settings, day, data, className,
                          remainingPeriods, period + 1, <<>>)

RECURSIVE FixedPassLabFromDay(_, _, _, _, _, _)
FixedPassLabFromDay(st, settings, data, className, remainingPeriods, day) ==
  IF day >= NumDays THEN st
  ELSE IF hasDifferentLabOnDay(st, className, day, data.subject)
    THEN FixedPassLabFromDay(st, settings, data, className, remainingPeriods, day + 1)
  ELSE
    LET consecutiveSlots ==
          FixedPassLabScan(st, settings, day, data, className, remainingPeriods, 0, <<>>)
    IN IF Len(consecutiveSlots) >= remainingPeriods
         THEN LabWorkloadFrom(
                LabAssignRun(st, day, data, className,
                             SubSeq(consecutiveSlots, 1, remainingPeriods), 1),
                parseStaffMembers(data.staff), remainingPeriods, 1)
         ELSE FixedPassLabFromDay(st, settings, data, className, remainingPeriods, day + 1)

\* allocateConsecutivePeriods and allocateAllLabPeriodsConsecutively
FixedPassLab(st, settings, data, className) ==
  IF getRemainingPeriods(st, data) <= 0 THEN st
  ELSE FixedPassLabFromDay(st, settings, data, className,
                           getRemainingPeriods(st, data), 0)

\* mutant: at most one late slot is taken per call
FixedPassLibrary_OnePerCall(st, settings, data, className) ==
  IF getRemainingPeriods(st, data) <= 0 THEN st
  ELSE LET slots == PeriodMajorSlots(settings, LibraryStart(settings))
           open == { i \in 1..Len(slots) :
                       isSlotAvailable(st, settings, slots[i].day, slots[i].period,
                                       className, data.staff) }
           first == CHOOSE i \in open : \A j \in open : i <= j
       IN IF open = {} THEN st
          ELSE IncAllocated(
                 assignSlotWithTracking(st, slots[first].day, slots[first].period,
                                        data, className),
                 data)

\* allocateLibraryPeriods: only the late periods, period by period
FixedPassLibrary(st, settings, data, className) ==
  IF getRemainingPeriods(st, data) <= 0 THEN st
  ELSE ScanAssign(st, settings, data, className,
                  PeriodMajorSlots(settings, LibraryStart(settings)), 1)

\* the late periods from Math.floor(totalPeriodsPerDay * 0.8) on but the last
\* one, period by period
OtherLateSlots(settings) ==
  SelectSeq(PeriodMajorSlots(settings, (TotalPeriods(settings) * 8) \div 10),
            LAMBDA s : s.period # TotalPeriods(settings) - 1)

\* allocateGamesPeriods of the fixed-pass generator: the last period of every
\* day, whatever that period is, then the other late periods
FixedPassGames(st, settings, data, className) ==
  IF getRemainingPeriods(st, data) <= 0 THEN st
  ELSE ScanAssign(
         ScanAssign(st, settings, data, className,
                    [i \in 1..NumDays |->
                       [day |-> i - 1, period |-> TotalPeriods(settings) - 1]], 1),
         settings, data, className, OtherLateSlots(settings), 1)

\* teacherPreferences.find(pref => subjectData.staff.includes(pref.teacherName)):
\* the preferred slot of the row's teacher is taken when the oracle accepts it
FixedPassPreferred(st, settings, prefs, data, className) ==
  LET hits == { i \in 1..Len(prefs) : prefs[i].teacherName \in Range(data.staff) }
      teacherPref == IF hits = {} THEN NoPreference
                     ELSE prefs[CHOOSE i \in hits : \A j \in hits : i <= j]
      prefDay == getDayIndex(teacherPref.preferredDay)
      prefPeriod == teacherPref.preferredPeriod - 1
  IN IF /\ teacherPref # NoPreference
        /\ prefDay >= 0
        /\ prefPeriod >= 0
        /\ isSlotAvailable(st, settings, prefDay, prefPeriod, className, data.staff)
       THEN IncAllocated(
              assignSlotWithTracking(st, prefDay, prefPeriod, data, className), data)
       ELSE st

\* while (allocatedPeriods < requiredPeriods): a slot on a day without the
\* subject, else any slot, else break
RECURSIVE FixedPassRegularLoop(_, _, _, _)
FixedPassRegularLoop(st, settings, data, className) ==
  IF getRemainingPeriods(st, data) <= 0 THEN st
  ELSE
    LET slots == DayMajorSlots(settings)
        open == { i \in 1..Len(slots) :
                    isSlotAvailable(st, settings, slots[i].day, slots[i].period,
                                    className, data.staff) }
        fresh == { i \in open :
                     ~wouldCreateRepetition(st, slots[i].day, slots[i].period,
                                            className, data.subject) }
        from == IF fresh # {} THEN fresh ELSE open
        pick == CHOOSE i \in from : \A j \in from : i <= j
    IN IF open = {} THEN st
       ELSE FixedPassRegularLoop(
              IncAllocated(
                assignSlotWithTracking(st, slots[pick].day, slots[pick].period,
                                       data, className),
                data),
              settings, data, className)

\* allocateRegularPeriods of the fixed-pass generator
FixedPassRegular(st, settings, prefs, data, className) ==
  IF getRemainingPeriods(st, data) <= 0 THEN st
  ELSE FixedPassRegularLoop(
         FixedPassPreferred(st, settings, prefs, data, className),
         settings, data, className)

\* allocateSubjectCompletely of the fixed-pass generator
FixedPassAllocateSubject(st, settings, prefs, data) ==
  IF isLabSubject(data.subject)
    THEN FixedPassLab(st, settings, data, ClassNameOf(data))
  ELSE IF isLibrarySubject(data.subject)
    THEN FixedPassLibrary(st, settings, data, ClassNameOf(data))
  ELSE IF isGamesSubject(data.subject)
    THEN FixedPassGames(st, settings, data, ClassNameOf(data))
  ELSE FixedPassRegular(st, settings, prefs, data, ClassNameOf(data))

-----------------------------------------------------------------------------
(* The fixed-pass generator: state machine *)

InitFixedPass ==
  /\ subjectData \in UNION { [1..n -> FixedPassRowChoices] : n \in 1..MaxRows }
  /\ teacherPreferences \in RepairPreferenceChoices
  /\ scheduleSettings \in { s \in SettingsChoices : s.totalPeriodsPerDay \in {4, 7} }
  /\ Constructed

\* generateTimetables, up to the loop
FixedPassGenerate ==
  /\ pc = "constructed"
  /\ SetHeap(FixedPassReset(Heap))
  /\ attempt' = 0
  /\ pc' = "while"
  /\ UNCHANGED <<inputs, csvFields, bestOfNFields, repairFields, sortedSubjects,
                 nextRow, returned>>

\* the loop test holds: the rows are sorted for one more pass
FixedPassBegin ==
  /\ pc = "while"
  /\ attempt < FixedPassMaxAttempts
  /\ ~isAllocationComplete(subjectAllocations)
  /\ sortedSubjects' =
       FixedPassSortedSubjects(subjectData, teacherPreferences, teacherWorkload)
  /\ nextRow' = 1
  /\ pc' = "pass"
  /\ UNCHANGED <<inputs, csvFields, bestOfNFields, repairFields, classTimetables,
                 teacherTimetables, subjectAllocations, teacherWorkload, attempt,
                 returned>>

\* one iteration of for (const subjectData of sortedSubjects)
FixedPassAllocate ==
  /\ pc = "pass"
  /\ nextRow <= Len(sortedSubjects)
  /\ SetHeap(FixedPassAllocateSubject(Heap, scheduleSettings, teacherPreferences,
                                      sortedSubjects[nextRow]))
  /\ nextRow' = nextRow + 1
  /\ UNCHANGED <<inputs, csvFields, bestOfNFields, repairFields, pc, attempt,
                 sortedSubjects, returned>>

\* attempt++ after the last row of the pass
FixedPassEnd ==
  /\ pc = "pass"
  /\ nextRow > Len(sortedSubjects)
  /\ attempt' = attempt + 1
  /\ pc' = "while"
  /\ UNCHANGED <<inputs, csvFields, bestOfNFields, repairFields, classTimetables,
                 teacherTimetables, subjectAllocations, teacherWorkload,
                 sortedSubjects, nextRow, returned>>

\* the loop test fails: the grids are returned as they are
FixedPassReturn ==
  /\ pc = "while"
  /\ attempt >= FixedPassMaxAttempts \/ isAllocationComplete(subjectAllocations)
  /\ returned' = [classTimetables |-> classTimetables,
                  teacherTimetables |-> teacherTimetables]
  /\ pc' = "done"
  /\ UNCHANGED <<inputs, csvFields, bestOfNFields, repairFields, classTimetables,
                 teacherTimetables, subjectAllocations, teacherWorkload, attempt,
                 sortedSubjects, nextRow>>

NextFixedPass ==
  \/ FixedPassGenerate
  \/ FixedPassBegin
  \/ FixedPassAllocate
  \/ FixedPassEnd
  \/ FixedPassReturn

SpecFixedPass == InitFixedPass /\ [][NextFixedPass]_vars

-----------------------------------------------------------------------------
(* C29: the fixed-pass repair loop reaches its fixed point in one pass. No  *)
(* allocator call of a pass after the first changes a class-grid cell, a    *)
(* teacher-grid cell, a ledger counter or a teacher workload; so the grids  *)
(* returned after an incomplete first pass are those the first pass left.   *)

\* an allocator call of a pass after the first
LaterPassCall == pc = "pass" /\ attempt >= 1 /\ nextRow <= Len(sortedSubjects)

C29_OnePassFixedPoint ==
  [][ LaterPassCall =>
        UNCHANGED <<classTimetables, teacherTimetables, subjectAllocations,
                    teacherWorkload>> ]_vars

\* the whole budget of passes was used after a first pass that placed some
\* periods and left a row short
C29_Witness ==
  /\ pc = "done"
  /\ attempt = FixedPassMaxAttempts
  /\ ~isAllocationComplete(subjectAllocations)
  /\ \E k \in DOMAIN subjectAllocations : subjectAllocations[k].allocatedPeriods > 0
  /\ returned.classTimetables = classTimetables

====
